---------------------------- MODULE Spec2Model ----------------------------
(***************************************************************************)
(* A model of SNPsea's statistical engine (src/src/data.cpp and            *)
(* src/src/common.h): SNP -> geneset resolution, size binning of the null  *)
(* pool, merging of user SNPs into loci, percentile ranking of the gene    *)
(* matrix and the adaptive permutation scheduler.                          *)
(*                                                                         *)
(* The constructor snpsea::snpsea runs these steps in sequence.  Each      *)
(* specification below runs one part of that sequence on inputs drawn from *)
(* bounded sets:                                                           *)
(*   SpecSched    calculate_pvalues and iterations                         *)
(*   SpecResolve  snp_geneset and bin_genesets                             *)
(*   SpecMerge    merge_user_snps, report_user_snp_genes, size clamping    *)
(*   SpecRank     read_bed_interval_tree, is_binary, normalise, rankdata   *)
(*   SpecRerank   the column-ranking step applied repeatedly               *)
(***************************************************************************)
EXTENDS Integers, Sequences, FiniteSets, TLC

VARIABLES
    pc,                 \* position in the step sequence of the running part
    \* ---- calculate_pvalues (data.cpp:1099-1221)
    max_iterations,     \* long max_iterations
    min_observations,   \* long min_observations
    col,                \* ulong col, the column being scored
    user_score,         \* double user_score, as a score level
    batches,            \* the vector returned by iterations(100, max_iterations)
    batch,              \* index in batches of the batch to run next
    nulls_tested,       \* long nulls_tested
    nulls_observed,     \* long nulls_observed
    row,                \* the row the last step wrote to the p-value stream
    null_draws,         \* history: calls of matched_genesets so far, each of
                        \* which advances the sampler's generator
    \* ---- snp_geneset and bin_genesets (data.cpp:354-383, 872-894)
    slop,               \* ulong slop
    _snp_intervals,     \* unordered_map name -> genomic_interval
    _null_snp_names,    \* set of names read from --null-snps
    _gene_interval_tree,\* chromosome -> the intervals of its IntervalTree
    _geneset_bins,      \* map size -> vector of genesets
    bin_snps,           \* history: the SNP each stored geneset came from
    visited,            \* SNPs the loop of bin_genesets has been through
    call,               \* the last call of snp_geneset: its queries and result
    \* ---- merge_user_snps and what follows it (data.cpp:164-178, 249-252)
    _user_snp_names,    \* set of SNP names, after merging of locus labels
    _user_genesets,     \* unordered_map label -> vector of row indices
    _user_geneset_sizes,\* vector of geneset sizes
    snp_genes,          \* the locus rows written to snp_genes.txt
    genesets,           \* the vector handed to calculate_pvalues
    in_genesets,        \* history: _user_genesets as overlap_genes left it
    loci,               \* history: the labels in the order merging made them
    passes,             \* history: how often merge_user_snps has run
    first_output,       \* history: the output of its first run
    \* ---- the gene matrix pipeline (data.cpp:66-113)
    gene_intervals_file,\* the rows of the --gene-intervals BED file
    _row_names,         \* vector of the matrix's row names
    _gene_matrix,       \* MatrixXd, a sequence of rows of values
    _nrows,             \* ulong nrows set by read_bed_interval_tree
    _binary_gene_matrix,\* bool
    _binary_sums,       \* the column sums cached in binary mode
    _binary_probs,      \* _binary_sums / _nrows
    rank_passes,        \* history: how often the ranking step has run
    ranked_once,        \* history: the matrix after its first run
    \* ---- matched_genesets and the parallel region (data.cpp:898-914,
    \*      1152-1176)
    null_genesets,      \* the vector a call of matched_genesets builds
    match_status,       \* how that call ended
    batch_count,        \* count, the size of the batch being run
    todo,               \* loop indices the omp for has not handed out yet
    worker,             \* per thread: position, index, thread_observed, ...
    generator,          \* the static std::mt19937, as its number of advances
    draw_scores,        \* history: loop index -> the scores its draws got
    observed_before,    \* history: nulls_observed when the batch began
    \* ---- overlap_genes and the SNP rows of snp_genes.txt (data.cpp:603-637,
    \*      718-733)
    _user_absent_snp_names, \* user SNPs not found in --snp-intervals
    _user_naked_snp_names,  \* user SNPs that overlap no gene
    snp_rows,           \* the NA and zero-gene rows written to snp_genes.txt
    \* ---- the p-value files (data.cpp:203-268, 1108-1133)
    null_snpset_replicates, \* --null-snpsets
    replicate,          \* static int replicate of calculate_pvalues
    calls,              \* the loop counter of the null replicates
    null_pvalues,       \* the lines of null_pvalues.txt
    condition_pvalues,  \* the lines of condition_pvalues.txt
    \* ---- condition (data.cpp:836-870)
    _col_names,         \* vector of the matrix's column names
    _condition_names,   \* set of names read from --condition
    condition_file,     \* the names in the order the --condition file has them
    cond_rest,          \* names the loop of condition has still to visit
    idxs,               \* vector of the column indices visited
    turns,              \* history: name, index and b of every projection
    before_step,        \* history: the matrix before the last step
    col_names_in,       \* history: the column names as read_gct left them
    \* ---- rankdata (common.h:281-310)
    rank_x,             \* const VectorXd & x
    rank_indices,       \* the VectorXd indices it returns, as twice the ranks
    \* ---- read_names (data.cpp:311-350)
    names_file,         \* the rows of the file, each a vector of tokens
    row_number,         \* how many rows the while loop has read
    found_snp,          \* bool found_snp
    snp_col,            \* int snp_col, counted from 1
    names_read,         \* std::set<std::string> & names
    \* ---- random_snps and random_genesets (data.cpp:386-431, 917-931)
    n_random,           \* int n, the number after "random" in the filename
    random_names,       \* std::set<std::string> & names
    random_result,      \* the vector random_genesets returns
    \* ---- the scoring functions (data.cpp:935-999, 1111-1122)
    score_method,       \* std::string score_method
    score_function,     \* the member function calculate_pvalues selected
    n1,                 \* unsigned int n1 of the last binary score
    n2                  \* unsigned int n2 of the last binary score

schedVars == <<max_iterations, min_observations, col, user_score, batches,
               batch, nulls_tested, nulls_observed, row, null_draws>>

resolveVars == <<slop, _snp_intervals, _null_snp_names, _gene_interval_tree,
                 _geneset_bins, bin_snps, visited, call>>

mergeVars == <<_user_snp_names, _user_genesets, _user_geneset_sizes,
               snp_genes, genesets, in_genesets, loci, passes, first_output>>

rankVars == <<gene_intervals_file, _row_names, _gene_matrix, _nrows,
              _binary_gene_matrix, _binary_sums, _binary_probs, rank_passes,
              ranked_once>>

permuteVars == <<null_genesets, match_status, batch_count, todo, worker,
                 generator, draw_scores, observed_before>>

reportVars == <<_user_absent_snp_names, _user_naked_snp_names, snp_rows>>

outputVars == <<null_snpset_replicates, replicate, calls, null_pvalues,
                condition_pvalues>>

conditionVars == <<_col_names, _condition_names, condition_file, cond_rest,
                   idxs, turns, before_step, col_names_in>>

callVars == <<rank_x, rank_indices, names_file, row_number, found_snp,
              snp_col, names_read, n_random, random_names, random_result,
              score_method, score_function, n1, n2>>

vars == <<pc, schedVars, resolveVars, mergeVars, rankVars, permuteVars,
          reportVars, outputVars, conditionVars, callVars>>

\* What the steps of one part leave alone.
notSched == <<resolveVars, mergeVars, rankVars, permuteVars, reportVars,
             outputVars, conditionVars, callVars>>
notResolve == <<schedVars, mergeVars, rankVars, permuteVars, reportVars,
               outputVars, conditionVars, callVars>>
notMerge == <<schedVars, resolveVars, rankVars, permuteVars, outputVars,
             conditionVars, callVars>>

Max(a, b) == IF a > b THEN a ELSE b
Min(a, b) == IF a < b THEN a ELSE b

NoRow == [kind |-> "none"]
NoCall == [kind |-> "none"]

\* The empty map.
EmptyMap == [x \in {} |-> 0]

(***************************************************************************)
(* Bounds of the model.                                                    *)
(***************************************************************************)
\* Largest --max-iterations tried.
MaxIterationsBound == 302
\* Number of matrix columns scored by calculate_pvalues.
NCols == 2
\* Score levels 0..MaxScore stand for the doubles the scoring functions return.
MaxScore == 1
\* ulong arithmetic is modulo 2^64; the model wraps at UlongModulus, far above
\* every coordinate and slop it uses, so a subtraction below zero wraps to a
\* value above all coordinates exactly as it does at 2^64.
UlongModulus == 1048576
\* Chromosomes 1..NChroms.
NChroms == 2
\* Rows of the gene matrix that the gene-interval file of SpecResolve lists.
NGenes == 12
\* Coordinate of the first gene in that file.
GeneFirst == 3
\* SNPs 1..NIntervalSnps have an interval; one more name has none.
NIntervalSnps == 1
\* SNP intervals start in 0..MaxSnpStart and are at most MaxSnpLen long.
MaxSnpStart == 2
MaxSnpLen == 11
\* --slop is drawn from 0..MaxSlop and the default.
MaxSlop == 2
\* The user's SNPs are 1..NUserSnps.
NUserSnps == 3
\* The short genesets of the user's SNPs hold rows 0..MaxRow.
MaxRow == 1
\* merge_user_snps is applied at most MaxMergePasses times in SpecRemerge.
MaxMergePasses == 2

(***************************************************************************)
(* Program constants.                                                      *)
(***************************************************************************)
\* The first batch size, iterations(100, max_iterations).
BatchStart == 100
\* Default of --min-observations.
DefaultMinObservations == 25
\* const ulong MAX_GENES = 10.
MAX_GENES == 10
\* Default of --slop.
DefaultSlop == 250000

(***************************************************************************)
(* iterations(start, max), common.h:39-52.                                 *)
(***************************************************************************)
RECURSIVE IterationsLoop(_, _, _, _)
IterationsLoop(result, start, sum, max) ==
    IF sum + start * 2 < max
    THEN IterationsLoop(Append(result, start * 2), start * 2,
                        sum + start * 2, max)
    ELSE Append(result, max - sum)

iterations(start, max) ==
    IterationsLoop(<<start>>, start, start, Max(start, max))

(***************************************************************************)
(* The option parser, option.cpp:305-316: max_iterations > 0 and           *)
(* 0 < min_observations < max_iterations, anything else exits.             *)
(***************************************************************************)
OptionsAccepted(maxit, minobs) ==
    /\ ~(maxit <= 0)
    /\ ~(minobs >= maxit \/ minobs <= 0)

MaxIterationsChoices ==
    {2, 3, BatchStart - 1, BatchStart, BatchStart + 1}
        \cup ((3 * BatchStart - 1) .. MaxIterationsBound)

MinObservationsChoices(maxit) ==
    {1, DefaultMinObservations, maxit - 1}

\* The scoring functions return a finite double, which can be negative.
ScoreLevels == (0 - 1) .. MaxScore

(***************************************************************************)
(* calculate_pvalues, data.cpp:1135-1208, one column at a time.            *)
(***************************************************************************)
IdleResolve ==
    /\ slop = 0
    /\ _snp_intervals = EmptyMap
    /\ _null_snp_names = {}
    /\ _gene_interval_tree = EmptyMap
    /\ _geneset_bins = EmptyMap
    /\ bin_snps = EmptyMap
    /\ visited = {}
    /\ call = NoCall

IdleMerge ==
    /\ _user_snp_names = {}
    /\ _user_genesets = EmptyMap
    /\ _user_geneset_sizes = <<>>
    /\ snp_genes = {}
    /\ genesets = <<>>
    /\ in_genesets = EmptyMap
    /\ loci = <<>>
    /\ passes = 0
    /\ first_output = <<>>

IdleRank ==
    /\ gene_intervals_file = <<>>
    /\ _row_names = <<>>
    /\ _gene_matrix = <<>>
    /\ _nrows = 0
    /\ _binary_gene_matrix = FALSE
    /\ _binary_sums = <<>>
    /\ _binary_probs = <<>>
    /\ rank_passes = 0
    /\ ranked_once = <<>>

IdleCondition ==
    /\ _col_names = <<>>
    /\ _condition_names = {}
    /\ condition_file = <<>>
    /\ cond_rest = {}
    /\ idxs = <<>>
    /\ turns = <<>>
    /\ before_step = <<>>
    /\ col_names_in = <<>>

IdleRankdata ==
    /\ rank_x = <<>>
    /\ rank_indices = <<>>

IdleReadNames ==
    /\ names_file = <<>>
    /\ row_number = 0
    /\ found_snp = FALSE
    /\ snp_col = 1
    /\ names_read = {}

IdleRandom ==
    /\ n_random = 0
    /\ random_names = {}
    /\ random_result = <<>>

IdleScore ==
    /\ score_method = ""
    /\ score_function = ""
    /\ n1 = 0
    /\ n2 = 0

\* No call of rankdata, read_names, random_snps or a scoring function yet.
IdleCall ==
    /\ IdleRankdata
    /\ IdleReadNames
    /\ IdleRandom
    /\ IdleScore

\* No call of calculate_pvalues yet (static int replicate = -1).
IdleOutput ==
    /\ null_snpset_replicates = 0
    /\ replicate = 0 - 1
    /\ calls = 0
    /\ null_pvalues = <<>>
    /\ condition_pvalues = <<>>

IdleReport ==
    /\ _user_absent_snp_names = {}
    /\ _user_naked_snp_names = {}
    /\ snp_rows = <<>>

IdlePermute ==
    /\ null_genesets = <<>>
    /\ match_status = "idle"
    /\ batch_count = 0
    /\ todo = {}
    /\ worker = EmptyMap
    /\ generator = 0
    /\ draw_scores = EmptyMap
    /\ observed_before = 0

InitSched ==
    /\ IdleCondition
    /\ IdleCall
    /\ IdlePermute
    /\ IdleOutput
    /\ IdleReport
    /\ IdleResolve
    /\ IdleMerge
    /\ IdleRank
    /\ max_iterations \in MaxIterationsChoices
    /\ min_observations \in MinObservationsChoices(max_iterations)
    /\ OptionsAccepted(max_iterations, min_observations)
    /\ col = 0
    /\ user_score = 0
    /\ batches = <<>>
    /\ batch = 0
    /\ nulls_tested = 0
    /\ nulls_observed = 0
    /\ row = NoRow
    /\ null_draws = 0
    /\ pc = "score"

\* The row written for a column, data.cpp:1141-1145 and 1191-1207; the
\* p-value is kept as the pair <<numerator, denominator>>.
PvalueRow(c, observed, tested) ==
    [kind |-> "pvalue", condition |-> c,
     pvalue |-> <<observed + 1, tested + 1>>,
     nulls_observed |-> observed, nulls_tested |-> tested]

ZeroScoreRow_Counted(c) == PvalueRow(c, 0, BatchStart)

ZeroScoreRow(c) ==
    [kind |-> "pvalue", condition |-> c, pvalue |-> <<1, 1>>,
     nulls_observed |-> 0, nulls_tested |-> 0]

NextColumnPc(c) == IF c + 1 < NCols THEN "score" ELSE "done"

\* data.cpp:1135-1150: score the user's genesets on column col.
ScoreColumn ==
    /\ pc = "score"
    /\ \E s \in ScoreLevels :
        /\ user_score' = s
        /\ IF s <= 0
           THEN /\ row' = ZeroScoreRow(col)
                /\ col' = col + 1
                /\ pc' = NextColumnPc(col)
                /\ UNCHANGED <<batches, batch, nulls_tested, nulls_observed>>
           ELSE /\ nulls_tested' = 0
                /\ nulls_observed' = 0
                /\ batches' = iterations(BatchStart, max_iterations)
                /\ batch' = 1
                /\ pc' = "batch"
                /\ row' = NoRow
                /\ UNCHANGED col
    /\ UNCHANGED <<max_iterations, min_observations, null_draws, notSched>>

\* data.cpp:1180: if (nulls_observed >= min_observations) break;
EnoughObserved_Never(observed, minobs) == FALSE

EnoughObserved(observed, minobs) == observed >= minobs

\* data.cpp:1152-1183: one batch of `count` null draws; k of them score at
\* least user_score (the sum of every thread's thread_observed).
RunBatch ==
    /\ pc = "batch"
    /\ LET count == batches[batch] IN
       \E k \in 0 .. count :
        /\ nulls_observed' = nulls_observed + k
        /\ nulls_tested' = nulls_tested + count
        /\ null_draws' = null_draws + count
        /\ IF EnoughObserved(nulls_observed + k, min_observations)
              \/ batch = Len(batches)
           THEN pc' = "emit" /\ batch' = batch
           ELSE pc' = "batch" /\ batch' = batch + 1
    /\ row' = NoRow
    /\ UNCHANGED <<max_iterations, min_observations, col, user_score,
                   batches, notSched>>

\* data.cpp:1185-1207: write the column's row and go to the next column; the
\* loop body's locals and the batch vector end their lifetime here.
EmitRow ==
    /\ pc = "emit"
    /\ row' = PvalueRow(col, nulls_observed, nulls_tested)
    /\ col' = col + 1
    /\ pc' = NextColumnPc(col)
    /\ nulls_tested' = 0
    /\ nulls_observed' = 0
    /\ batches' = <<>>
    /\ batch' = 0
    /\ UNCHANGED <<max_iterations, min_observations, user_score, null_draws,
                   notSched>>

NextSched == ScoreColumn \/ RunBatch \/ EmitRow

SpecSched == InitSched /\ [][NextSched]_vars

(***************************************************************************)
(* C1: every row emitted by calculate_pvalues has                          *)
(* 0 <= nulls_observed <= nulls_tested <= max_iterations, for every        *)
(* max_iterations and min_observations the option parser accepts.          *)
(***************************************************************************)
C1_CountersWithinMaxIterations ==
    row # NoRow =>
        /\ 0 <= row.nulls_observed
        /\ row.nulls_observed <= row.nulls_tested
        /\ row.nulls_tested <= max_iterations

(***************************************************************************)
(* C11: for a column whose user score is <= 0 the scheduler emits pvalue   *)
(* 1.0 with nulls_observed = 0 and nulls_tested = 0, makes no null draw    *)
(* for that column (the generator is not advanced) and goes on to the      *)
(* next column.                                                            *)
(***************************************************************************)
C11_ZeroScoreColumnSkipped ==
    [][(pc = "score" /\ user_score' <= 0) =>
        /\ row' = [kind |-> "pvalue", condition |-> col, pvalue |-> <<1, 1>>,
                   nulls_observed |-> 0, nulls_tested |-> 0]
        /\ null_draws' = null_draws
        /\ col' = col + 1
        /\ pc' = IF col + 1 < NCols THEN "score" ELSE "done"]_vars

(***************************************************************************)
(* C12: within a column with user_score > 0 the termination test is made   *)
(* only at the end of a complete batch; the scheduler stops after the      *)
(* first batch at whose end the cumulative nulls_observed is at least      *)
(* min_observations and runs no later batch, otherwise it runs every batch *)
(* of the schedule.                                                        *)
(***************************************************************************)
RECURSIVE SumOfFirst(_, _)
SumOfFirst(sizes, n) ==
    IF n = 0 THEN 0 ELSE sizes[n] + SumOfFirst(sizes, n - 1)

C11_Witness ==
    /\ user_score <= 0
    /\ row # NoRow
    /\ row.condition >= 1
    /\ row.nulls_tested = 0
    /\ row.pvalue = <<1, 1>>
    /\ null_draws > 0
    /\ col = row.condition + 1


IdleSched ==
    /\ max_iterations = 0
    /\ min_observations = 0
    /\ col = 0
    /\ user_score = 0
    /\ batches = <<>>
    /\ batch = 0
    /\ nulls_tested = 0
    /\ nulls_observed = 0
    /\ row = NoRow
    /\ null_draws = 0

(***************************************************************************)
(* unsigned long arithmetic.                                               *)
(***************************************************************************)
USub(a, b) == (a - b) % UlongModulus
UAdd(a, b) == (a + b) % UlongModulus

(***************************************************************************)
(* read_bed_interval_tree, data.cpp:455-529.  A BED file is a sequence of  *)
(* rows [chrom, start, end, name]; row_names is the matrix's row names.    *)
(***************************************************************************)
SeqToSet(seq) == {seq[i] : i \in 1 .. Len(seq)}

\* data.cpp:477-480: index[row_names.at(i)] = i, the last position of a name.
RowIndex(row_names, name) ==
    (CHOOSE i \in 1 .. Len(row_names) :
        /\ row_names[i] = name
        /\ \A j \in (i + 1) .. Len(row_names) : row_names[j] # name) - 1

\* data.cpp:487-501: the rows kept, those named in the gene matrix.
KeptBedRows(file, row_names) ==
    SelectSeq(file, LAMBDA r : r.name \in SeqToSet(row_names))

\* data.cpp:494-496 and 525-528: the intervals of one chromosome's tree.
ChromIntervals(file, row_names, chrom) ==
    LET rows == SelectSeq(KeptBedRows(file, row_names),
                          LAMBDA r : r.chrom = chrom)
    IN [i \in 1 .. Len(rows) |->
            [start |-> rows[i].start, stop |-> rows[i].end,
             value |-> RowIndex(row_names, rows[i].name)]]

\* data.cpp:503-510: nrows = row_names.size() - missing_genes.size().
EffectiveRows(file, row_names) ==
    LET bed_genes == {r.name : r \in SeqToSet(KeptBedRows(file, row_names))}
        missing_genes == SeqToSet(row_names) \ bed_genes
    IN Len(row_names) - Cardinality(missing_genes)

read_bed_interval_tree(file, row_names) ==
    LET chroms == {r.chrom : r \in SeqToSet(KeptBedRows(file, row_names))}
    IN [tree |-> [c \in chroms |-> ChromIntervals(file, row_names, c)],
        nrows |-> EffectiveRows(file, row_names)]

(***************************************************************************)
(* IntervalTree<ulong>::findOverlapping(start, stop, overlapping): every   *)
(* interval of the tree with interval.stop >= start and                    *)
(* interval.start <= stop (endpoints inclusive).                           *)
(***************************************************************************)
findOverlapping(tree, start, stop) ==
    SelectSeq(tree, LAMBDA iv : iv.stop >= start /\ iv.start <= stop)

\* _gene_interval_tree[chrom]: operator[] gives an empty tree for a
\* chromosome without genes.
TreeAt(chrom) ==
    IF chrom \in DOMAIN _gene_interval_tree
    THEN _gene_interval_tree[chrom]
    ELSE <<>>

Values(gene_intervals) ==
    [i \in 1 .. Len(gene_intervals) |-> gene_intervals[i].value]

(***************************************************************************)
(* snp_geneset, data.cpp:354-383: the queries issued and the row indices   *)
(* returned.                                                               *)
(***************************************************************************)
snp_geneset_AlwaysSlop(snp, slop_) ==
    LET iv == _snp_intervals[snp]
        first == findOverlapping(TreeAt(iv.chrom), iv.start, iv.end)
        lower == Max(1, USub(iv.start, slop_))
        upper == UAdd(iv.end, slop_)
        second == findOverlapping(TreeAt(iv.chrom), lower, upper)
    IN [kind |-> "call", snp |-> snp,
        queries |-> <<<<iv.start, iv.end>>, <<lower, upper>>>>,
        indices |-> Values(first \o second)]

snp_geneset(snp, slop_) ==
    LET iv == _snp_intervals[snp]
        first == findOverlapping(TreeAt(iv.chrom), iv.start, iv.end)
        lower == Max(1, USub(iv.start, slop_))
        upper == UAdd(iv.end, slop_)
        second == findOverlapping(TreeAt(iv.chrom), lower, upper)
    IN IF Len(first) = 0
       THEN [kind |-> "call", snp |-> snp,
             queries |-> <<<<iv.start, iv.end>>, <<lower, upper>>>>,
             indices |-> Values(first \o second)]
       ELSE [kind |-> "call", snp |-> snp,
             queries |-> <<<<iv.start, iv.end>>>>,
             indices |-> Values(first)]

(***************************************************************************)
(* bin_genesets, data.cpp:872-894.                                         *)
(***************************************************************************)
\* data.cpp:883-889.
BinKey_NoClamp(n_genes, max_genes) == n_genes

BinKey(n_genes, max_genes) ==
    IF n_genes > max_genes THEN max_genes ELSE n_genes

\* map[key].push_back(x)
PushBack(map, key, x) ==
    IF key \in DOMAIN map
    THEN [map EXCEPT ![key] = Append(@, x)]
    ELSE [k \in DOMAIN map \cup {key} |->
            IF k = key THEN <<x>> ELSE map[k]]

(***************************************************************************)
(* Inputs of SpecResolve.                                                  *)
(***************************************************************************)
Chroms == 1 .. NChroms
RowNames == [i \in 1 .. NGenes |-> i]

\* Gene r of the matrix lies at the single coordinate GeneFirst + r - 1 of
\* chromosome 1; the last line places gene 1 on the last chromosome too.
GeneBedFile ==
    [i \in 1 .. NGenes |->
        [chrom |-> 1, start |-> GeneFirst + i - 1,
         end |-> GeneFirst + i - 1, name |-> i]]
    \o <<[chrom |-> NChroms, start |-> GeneFirst, end |-> GeneFirst,
          name |-> 1]>>

SnpLens == {0} \cup ((MAX_GENES - 1) .. MaxSnpLen)

SnpIntervalChoices ==
    {[chrom |-> c, start |-> s, end |-> s + l] :
        c \in Chroms, s \in 0 .. MaxSnpStart, l \in SnpLens}

IntervalSnps == 1 .. NIntervalSnps
SnpNames == 1 .. (NIntervalSnps + 1)
SlopChoices == (0 .. MaxSlop) \cup {DefaultSlop}

InitResolve ==
    /\ IdleCondition
    /\ IdleCall
    /\ IdlePermute
    /\ IdleOutput
    /\ IdleReport
    /\ IdleSched
    /\ IdleMerge
    /\ IdleRank
    /\ slop \in SlopChoices
    /\ _snp_intervals \in [IntervalSnps -> SnpIntervalChoices]
    /\ _null_snp_names \in (SUBSET SnpNames) \ {{}}
    /\ _gene_interval_tree = read_bed_interval_tree(GeneBedFile, RowNames).tree
    /\ _geneset_bins = EmptyMap
    /\ bin_snps = EmptyMap
    /\ visited = {}
    /\ call = NoCall
    /\ pc = "bin_genesets"

\* One iteration of the loop of bin_genesets over _snp_intervals (an
\* unordered_map: the order of the SNPs is not specified).
BinGenesetsStep ==
    /\ pc = "bin_genesets"
    /\ \E snp \in DOMAIN _snp_intervals \ visited :
        /\ visited' = visited \cup {snp}
        /\ pc' = IF visited \cup {snp} = DOMAIN _snp_intervals
                 THEN "binned" ELSE "bin_genesets"
        /\ IF snp \notin _null_snp_names
           THEN UNCHANGED <<_geneset_bins, bin_snps, call>>
           ELSE LET result == snp_geneset(snp, slop)
                    n_genes == Len(result.indices)
                    key == BinKey(n_genes, MAX_GENES)
                IN /\ call' = result
                   /\ IF n_genes > 0
                      THEN /\ _geneset_bins' =
                                PushBack(_geneset_bins, key, result.indices)
                           /\ bin_snps' = PushBack(bin_snps, key, snp)
                      ELSE UNCHANGED <<_geneset_bins, bin_snps>>
    /\ UNCHANGED <<slop, _snp_intervals, _null_snp_names,
                   _gene_interval_tree, notResolve>>

NextResolve == BinGenesetsStep

SpecResolve == InitResolve /\ [][NextResolve]_vars

(***************************************************************************)
(* C7: when the exact query is empty, the second query of snp_geneset has  *)
(* lower bound max(1, start - slop) computed without wrap-around (1        *)
(* whenever start <= slop) and upper bound end + slop.                     *)
(***************************************************************************)
C7_SlopQueryClampedAtOne ==
    (call # NoCall /\ Len(call.queries) = 2) =>
        LET iv == _snp_intervals[call.snp]
        IN call.queries[2] = <<Max(1, iv.start - slop), iv.end + slop>>

(***************************************************************************)
(* C8: snp_geneset issues the slop-extended query if and only if the exact *)
(* query returns no gene; when the exact query returns a gene, the result  *)
(* is exactly the exact query's row indices.                               *)
(***************************************************************************)
ExactQueryIndices(snp) ==
    LET iv == _snp_intervals[snp]
    IN Values(findOverlapping(TreeAt(iv.chrom), iv.start, iv.end))

C8_SlopIffExactEmpty ==
    call # NoCall =>
        LET exact == ExactQueryIndices(call.snp)
        IN /\ Len(call.queries) \in {1, 2}
           /\ (Len(call.queries) = 2) <=> (Len(exact) = 0)
           /\ Len(exact) > 0 => call.indices = exact

\* The slop query was issued and found a gene the exact query missed.
C8_Witness ==
    /\ call # NoCall
    /\ Len(call.queries) = 2
    /\ Len(ExactQueryIndices(call.snp)) = 0
    /\ Len(call.indices) > 0

(***************************************************************************)
(* C10: every geneset stored in bin k comes from a null-list SNP that has  *)
(* an interval and resolves to at least one gene, 1 <= k <= MAX_GENES and  *)
(* k = min(|geneset|, MAX_GENES); no null-list SNP with an empty geneset   *)
(* is stored in a bin.                                                     *)
(***************************************************************************)
BinnedSnps ==
    UNION {SeqToSet(bin_snps[k]) : k \in DOMAIN bin_snps}

C10_BinsHoldSizedNullGenesets ==
    /\ DOMAIN bin_snps = DOMAIN _geneset_bins
    /\ \A k \in DOMAIN _geneset_bins :
        /\ 1 <= k /\ k <= MAX_GENES
        /\ Len(bin_snps[k]) = Len(_geneset_bins[k])
        /\ \A i \in 1 .. Len(_geneset_bins[k]) :
            LET geneset == _geneset_bins[k][i]
                snp == bin_snps[k][i]
            IN /\ snp \in _null_snp_names
               /\ snp \in DOMAIN _snp_intervals
               /\ geneset = snp_geneset(snp, slop).indices
               /\ Len(geneset) >= 1
               /\ k = Min(Len(geneset), MAX_GENES)
    /\ \A snp \in _null_snp_names \cap DOMAIN _snp_intervals :
        Len(snp_geneset(snp, slop).indices) = 0 => snp \notin BinnedSnps

\* Bin MAX_GENES holds a geneset of more than MAX_GENES genes.
C10_Witness ==
    /\ pc = "binned"
    /\ MAX_GENES \in DOMAIN _geneset_bins
    /\ \E i \in 1 .. Len(_geneset_bins[MAX_GENES]) :
        Len(_geneset_bins[MAX_GENES][i]) > MAX_GENES


(***************************************************************************)
(* Locus labels.  A SNP name is a number; a label is the sequence of the   *)
(* names that "," joins (a single name is a label of length 1).            *)
(* std::set<std::string> keeps labels in string order, which for names of  *)
(* one width that sort after "," is the lexicographic order below.         *)
(***************************************************************************)
LabelLess(x, y) ==
    \E i \in 1 .. (Min(Len(x), Len(y)) + 1) :
        /\ \A j \in 1 .. (i - 1) : x[j] = y[j]
        /\ \/ i > Len(x) /\ i <= Len(y)
           \/ i <= Len(x) /\ i <= Len(y) /\ x[i] < y[i]

\* The iteration order of a std::set of labels.
RECURSIVE SetOrder(_)
SetOrder(S) ==
    IF S = {} THEN <<>>
    ELSE LET least == CHOOSE x \in S : \A y \in S \ {x} : LabelLess(x, y)
         IN <<least>> \o SetOrder(S \ {least})

\* merged_snp += "," + b
JoinLabel(merged_snp, b) == merged_snp \o b

\* std::sort of a vector of row indices.
RECURSIVE InsertSorted(_, _)
InsertSorted(sorted, x) ==
    IF sorted = <<>> THEN <<x>>
    ELSE IF x < Head(sorted) THEN <<x>> \o sorted
    ELSE <<Head(sorted)>> \o InsertSorted(Tail(sorted), x)

RECURSIVE Sort(_)
Sort(v) ==
    IF v = <<>> THEN <<>> ELSE InsertSorted(Sort(Tail(v)), Head(v))

\* std::set_union of two sorted ranges: an element found m times in the first
\* and n times in the second is written max(m, n) times.
RECURSIVE set_union(_, _)
set_union(a, b) ==
    IF a = <<>> THEN b
    ELSE IF b = <<>> THEN a
    ELSE IF Head(a) < Head(b) THEN <<Head(a)>> \o set_union(Tail(a), b)
    ELSE IF Head(b) < Head(a) THEN <<Head(b)>> \o set_union(a, Tail(b))
    ELSE <<Head(a)>> \o set_union(Tail(a), Tail(b))

(***************************************************************************)
(* merge_user_snps, data.cpp:639-707.                                      *)
(***************************************************************************)
\* data.cpp:666-688, the loop over b for one a.  st holds merged_snp,
\* genes_a and merged_snps.
RECURSIVE MergeInner(_, _, _, _)
MergeInner(bs, a, gsets, st) ==
    IF bs = <<>> THEN st
    ELSE LET b == Head(bs) IN
         IF b = a \/ b \notin DOMAIN gsets \/ b \in st.merged_snps
         THEN MergeInner(Tail(bs), a, gsets, st)
         ELSE LET genes_b == Sort(gsets[b])
                  genes_ab == set_union(st.genes_a, genes_b)
              IN IF Len(genes_ab) < Len(st.genes_a) + Len(genes_b)
                 THEN MergeInner(Tail(bs), a, gsets,
                        [merged_snp |-> JoinLabel(st.merged_snp, b),
                         genes_a |-> genes_ab,
                         merged_snps |-> st.merged_snps \cup {a, b}])
                 ELSE MergeInner(Tail(bs), a, gsets, st)

\* data.cpp:657-698, the loop over a.  acc holds merged_snps and the three
\* new containers; loci lists the labels in the order they are made.
RECURSIVE MergeOuter(_, _, _, _)
MergeOuter(as, names, gsets, acc) ==
    IF as = <<>> THEN acc
    ELSE LET a == Head(as) IN
         IF a \notin DOMAIN gsets \/ a \in acc.merged_snps
         THEN MergeOuter(Tail(as), names, gsets, acc)
         ELSE LET st == MergeInner(names, a, gsets,
                            [merged_snp |-> a,
                             genes_a |-> Sort(gsets[a]),
                             merged_snps |-> acc.merged_snps])
              IN MergeOuter(Tail(as), names, gsets,
                    [merged_snps |-> st.merged_snps,
                     snp_names |-> acc.snp_names \cup {st.merged_snp},
                     genesets |->
                        [l \in DOMAIN acc.genesets \cup {st.merged_snp} |->
                            IF l = st.merged_snp THEN st.genes_a
                            ELSE acc.genesets[l]],
                     geneset_sizes |->
                        Append(acc.geneset_sizes, Len(st.genes_a)),
                     loci |-> Append(acc.loci, st.merged_snp)])

merge_user_snps(snp_names, gsets) ==
    MergeOuter(SetOrder(snp_names), SetOrder(snp_names), gsets,
               [merged_snps |-> {}, snp_names |-> {}, genesets |-> EmptyMap,
                geneset_sizes |-> <<>>, loci |-> <<>>])

(***************************************************************************)
(* Inputs of SpecMerge: what overlap_genes (data.cpp:603-637) leaves.      *)
(* Every user SNP name is in _user_snp_names; a SNP that is in the         *)
(* interval map and overlaps a gene has a non-empty vector of row indices, *)
(* in the order and with the repeats the tree gave them.                   *)
(***************************************************************************)
Rows == 0 .. MaxRow
Run(first, n) == [i \in 1 .. n |-> first + i - 1]

ShortGenesets ==
    {<<r>> : r \in Rows} \cup {<<r, q>> : r \in Rows, q \in Rows}

LongGenesets ==
    {Run(0, MAX_GENES), Run(0, MAX_GENES + 1), Run(MAX_GENES - 1, 2)}

GenesetPool == ShortGenesets \cup LongGenesets

UserSnps == {<<n>> : n \in 1 .. NUserSnps}

UserGenesetMaps ==
    UNION {[with -> GenesetPool] : with \in SUBSET UserSnps}

InitMergeInputs ==
    /\ _user_snp_names = UserSnps
    /\ _user_genesets \in UserGenesetMaps
    /\ in_genesets = _user_genesets
    /\ _user_absent_snp_names = UserSnps \ DOMAIN _user_genesets
    /\ _user_naked_snp_names = {}
    /\ snp_rows = <<>>
    /\ _user_geneset_sizes = <<>>
    /\ snp_genes = {}
    /\ genesets = <<>>
    /\ loci = <<>>
    /\ passes = 0
    /\ first_output = <<>>

InitMerge ==
    /\ IdleCondition
    /\ IdleCall
    /\ IdlePermute
    /\ IdleOutput
    /\ IdleSched
    /\ IdleResolve
    /\ IdleRank
    /\ InitMergeInputs
    /\ pc = "merge_user_snps"

\* data.cpp:165-169 and 700-702.
MergeUserSnps ==
    /\ pc \in {"merge_user_snps", "remerge"}
    /\ passes < MaxMergePasses
    /\ LET out == merge_user_snps(_user_snp_names, _user_genesets) IN
        /\ _user_snp_names' = out.snp_names
        /\ _user_genesets' = out.genesets
        /\ _user_geneset_sizes' = out.geneset_sizes
        /\ loci' = out.loci
        /\ first_output' =
            IF passes = 0
            THEN <<out.snp_names, out.genesets, out.geneset_sizes>>
            ELSE first_output
    /\ passes' = passes + 1
    /\ pc' = IF pc = "remerge" THEN "remerge" ELSE "report_user_snp_genes"
    /\ UNCHANGED <<snp_genes, genesets, in_genesets, notMerge, reportVars>>

\* _snp_intervals[snp]: operator[] of the map gives a default interval
\* (empty chrom, start 0, end 0) for a name the map does not hold.
IntervalAt(snp) ==
    IF snp \in DOMAIN _snp_intervals THEN _snp_intervals[snp]
    ELSE [chrom |-> 0, start |-> 0, end |-> 0]

\* data.cpp:746-755: the loop over split_string(snp, ','), begun with
\* start = 0 and end = 0.
RECURSIVE MergedInterval(_, _)
MergedInterval(members, acc) ==
    IF members = <<>> THEN acc
    ELSE LET snp_interval == IntervalAt(<<Head(members)>>) IN
         MergedInterval(Tail(members),
            [chrom |-> snp_interval.chrom,
             start |-> IF acc.start = 0 \/ snp_interval.start < acc.start
                       THEN snp_interval.start ELSE acc.start,
             end |-> IF acc.end = 0 \/ snp_interval.end > acc.end
                     THEN snp_interval.end ELSE acc.end])

\* data.cpp:737-761: a label that holds a comma is a merged locus.
LocusInterval(snp) ==
    IF Len(snp) > 1
    THEN MergedInterval(snp, [chrom |-> 0, start |-> 0, end |-> 0])
    ELSE IntervalAt(snp)

\* data.cpp:735-781, the rows of the user's loci: chrom, start, end, label,
\* n_genes, genes.
LocusRow(snp) ==
    [chrom |-> LocusInterval(snp).chrom, start |-> LocusInterval(snp).start,
     end |-> LocusInterval(snp).end,
     snp |-> snp, n_genes |-> Len(_user_genesets[snp]),
     genes |-> _user_genesets[snp]]

\* data.cpp:718-733: a row per absent SNP, then a row per naked SNP, each
\* set in name order.
SnpRows(absent, naked) ==
    [i \in 1 .. Len(SetOrder(absent)) |->
        [snp |-> SetOrder(absent)[i], n_genes |-> "NA"]]
    \o [i \in 1 .. Len(SetOrder(naked)) |->
        [snp |-> SetOrder(naked)[i], n_genes |-> "0"]]

ReportUserSnpGenes ==
    /\ pc = "report_user_snp_genes"
    /\ snp_rows' = SnpRows(_user_absent_snp_names, _user_naked_snp_names)
    /\ snp_genes' = {LocusRow(snp) : snp \in _user_snp_names}
    /\ pc' = "clamp_sizes"
    /\ UNCHANGED <<_user_snp_names, _user_genesets, _user_geneset_sizes,
                   genesets, in_genesets, loci, passes, first_output,
                   notMerge, _user_absent_snp_names, _user_naked_snp_names>>

\* data.cpp:174-178.
ClampSize_NoClamp(size, max_genes) == size

ClampSize(size, max_genes) ==
    IF size > max_genes THEN max_genes ELSE size

ClampSizes ==
    /\ pc = "clamp_sizes"
    /\ _user_geneset_sizes' =
        [i \in 1 .. Len(_user_geneset_sizes) |->
            ClampSize(_user_geneset_sizes[i], MAX_GENES)]
    /\ pc' = "collect_genesets"
    /\ UNCHANGED <<_user_snp_names, _user_genesets, snp_genes, genesets,
                   in_genesets, loci, passes, first_output, notMerge,
                   reportVars>>

\* The orders in which an unordered_map may hand out the keys in S.
Orders(S) ==
    {o \in [1 .. Cardinality(S) -> S] :
        \A i, j \in 1 .. Cardinality(S) : i # j => o[i] # o[j]}

\* data.cpp:249-252: the vector of genesets for the user's pass, in the
\* order the unordered_map iterates.
CollectGenesets ==
    /\ pc = "collect_genesets"
    /\ \E order \in Orders(DOMAIN _user_genesets) :
        genesets' = [i \in 1 .. Len(order) |-> _user_genesets[order[i]]]
    /\ pc' = "done"
    /\ UNCHANGED <<_user_snp_names, _user_genesets, _user_geneset_sizes,
                   snp_genes, in_genesets, loci, passes, first_output,
                   notMerge, reportVars>>

NextMerge ==
    \/ MergeUserSnps
    \/ ReportUserSnpGenes
    \/ ClampSizes
    \/ CollectGenesets

SpecMerge == InitMerge /\ [][NextMerge]_vars

\* merge_user_snps applied to its own output.
InitRemerge ==
    /\ IdleCondition
    /\ IdleCall
    /\ IdlePermute
    /\ IdleOutput
    /\ IdleSched
    /\ IdleResolve
    /\ IdleRank
    /\ InitMergeInputs
    /\ pc = "remerge"

NextRemerge == MergeUserSnps

SpecRemerge == InitRemerge /\ [][NextRemerge]_vars


\* The input SNPs a label joins, and the rows their genesets hold.
Members(label) == {<<label[i]>> : i \in 1 .. Len(label)}
MemberRows(label) == UNION {SeqToSet(in_genesets[m]) : m \in Members(label)}

(***************************************************************************)
(* C2: after merge_user_snps no two output loci have genesets that share a *)
(* row index.                                                              *)
(***************************************************************************)
C2_NoTwoLociShareARow ==
    passes >= 1 =>
        \A x \in _user_snp_names : \A y \in _user_snp_names :
            x # y => SeqToSet(_user_genesets[x])
                        \cap SeqToSet(_user_genesets[y]) = {}

(***************************************************************************)
(* C3: merging is idempotent: merge_user_snps applied to its own output    *)
(* (names, genesets, sizes) returns that output unchanged.                 *)
(***************************************************************************)
C3_MergingTwiceEqualsOnce ==
    passes = 2 =>
        <<_user_snp_names, _user_genesets, _user_geneset_sizes>>
            = first_output

(***************************************************************************)
(* C4: every locus made by merge_user_snps has a label that joins, in      *)
(* ascending name order, a non-empty group of input SNPs that have         *)
(* genesets; its geneset is exactly the union of their genesets; and the   *)
(* size recorded for it (n_genes) is the cardinality of that union.        *)
(***************************************************************************)
C4_LabelAndUnion(label) ==
    /\ Len(label) >= 1
    /\ Members(label) \subseteq DOMAIN in_genesets
    /\ \A j \in 1 .. Len(label) : \A k \in 1 .. Len(label) :
        j < k => label[j] < label[k]
    /\ SeqToSet(_user_genesets[label]) = MemberRows(label)

C4_LocusIsUnionOfItsSnps ==
    /\ pc = "report_user_snp_genes" =>
        /\ SeqToSet(loci) = _user_snp_names
        /\ Len(_user_geneset_sizes) = Len(loci)
        /\ \A i \in 1 .. Len(loci) :
            /\ C4_LabelAndUnion(loci[i])
            /\ _user_geneset_sizes[i] = Cardinality(MemberRows(loci[i]))
    /\ \A r \in snp_genes :
        r.n_genes = Cardinality(MemberRows(r.snp))

(***************************************************************************)
(* C9: after merging, each locus's size used for bin lookup is             *)
(* min(|geneset|, MAX_GENES), while the geneset passed to the scoring      *)
(* functions and the n_genes written to snp_genes.txt keep all of the      *)
(* locus's row indices.                                                    *)
(***************************************************************************)
C9_SizesClampedGenesetsKept ==
    pc = "done" =>
        /\ Len(_user_geneset_sizes) = Len(loci)
        /\ \A i \in 1 .. Len(loci) :
            _user_geneset_sizes[i] =
                Min(Len(_user_genesets[loci[i]]), MAX_GENES)
        /\ Len(genesets) = Len(loci)
        /\ \A i \in 1 .. Len(loci) :
            /\ SeqToSet(_user_genesets[loci[i]]) = MemberRows(loci[i])
            /\ \E j \in 1 .. Len(genesets) :
                genesets[j] = _user_genesets[loci[i]]
        /\ {r.snp : r \in snp_genes} = SeqToSet(loci)
        /\ \A r \in snp_genes :
            /\ r.n_genes = Len(_user_genesets[r.snp])
            /\ SeqToSet(r.genes) = MemberRows(r.snp)

\* A locus merged from two SNPs holds more than MAX_GENES genes and is
\* looked up at MAX_GENES.
C9_Witness ==
    /\ pc = "done"
    /\ \E i \in 1 .. Len(loci) :
        /\ Len(loci[i]) > 1
        /\ Len(_user_genesets[loci[i]]) > MAX_GENES
        /\ _user_geneset_sizes[i] = MAX_GENES
        /\ \E j \in 1 .. Len(genesets) : Len(genesets[j]) > MAX_GENES


(***************************************************************************)
(* The gene matrix pipeline of the constructor, data.cpp:66-113.           *)
(*                                                                         *)
(* A double that the pipeline can hold is a non-negative number, +inf or   *)
(* NaN.  The pair <<n, d>> stands for sqrt(n / d): d > 0 is a finite       *)
(* number, <<n, 0>> with n > 0 is +inf (x / 0.0 for x > 0) and <<0, 0>> is *)
(* NaN (0.0 / 0.0).  The square root keeps x / norm exact.                 *)
(***************************************************************************)
NMatrixRows == 2
NMatrixCols == 2
MaxRankPasses == 3

RECURSIVE GCD(_, _)
GCD(a, b) == IF b = 0 THEN a ELSE GCD(b, a % b)

\* One pair for each value: lowest terms, <<1, 0>> for +inf.
Canonical(n, d) ==
    IF d = 0 THEN <<Min(n, 1), 0>>
    ELSE <<n \div GCD(n, d), d \div GCD(n, d)>>

FromRatio(a, b) == Canonical(a * a, b * b)
FromInt(x) == FromRatio(x, 1)
Zero == FromInt(0)
One == FromInt(1)
NaN == <<0, 0>>

IsNaN(v) == v[1] = 0 /\ v[2] = 0

\* operator> and operator== of double: false when either side is NaN.
GT(a, b) == ~IsNaN(a) /\ ~IsNaN(b) /\ a[1] * b[2] > b[1] * a[2]
EQ(a, b) == ~IsNaN(a) /\ ~IsNaN(b) /\ a[1] * b[2] = b[1] * a[2]
LE(a, b) == ~IsNaN(a) /\ ~IsNaN(b) /\ a[1] * b[2] <= b[1] * a[2]

\* The integer a raw matrix entry holds.
ToInt(v) == CHOOSE k \in 0 .. v[1] : k * k = v[1]

MatrixRows(matrix) == 1 .. Len(matrix)
MatrixCols(matrix) == IF matrix = <<>> THEN {} ELSE 1 .. Len(matrix[1])
Column(matrix, c) == [r \in MatrixRows(matrix) |-> matrix[r][c]]

\* common.h:312-322.
is_binary(x) ==
    \A i \in 1 .. Len(x) : ~(~EQ(x[i], Zero) /\ ~EQ(x[i], One))

RECURSIVE SumInts(_)
SumInts(x) == IF x = <<>> THEN 0 ELSE ToInt(Head(x)) + SumInts(Tail(x))

\* common.h:266-278.
argsort_asc(left, right) == GT(right.second, left.second)

argsort_desc(left, right) == GT(left.second, right.second)

\* std::sort(data.begin(), data.end(), argsort_desc).  Without a NaN the
\* comparison is a strict weak order and the result is any arrangement in
\* which no element comes before one it is greater than.  With a NaN it is
\* not a strict weak order and the call has undefined behaviour: any
\* arrangement of the elements may come out.
StdSort(data) ==
    LET arranged == {[i \in 1 .. Len(data) |-> data[o[i]]] :
                        o \in Orders(1 .. Len(data))}
    IN IF \E i \in 1 .. Len(data) : IsNaN(data[i].second)
       THEN arranged
       ELSE {d \in arranged :
                \A i \in 1 .. Len(d) : \A j \in 1 .. Len(d) :
                    i < j => ~argsort_desc(d[j], d[i])}

\* common.h:302-304: while (i + reps < data.size() && val(i) == val(i + reps))
RECURSIVE CountReps(_, _, _)
CountReps(data, i, reps) ==
    IF i + reps < Len(data)
       /\ EQ(data[i + 1].second, data[i + reps + 1].second)
    THEN CountReps(data, i, reps + 1)
    ELSE reps

\* common.h:306: (2.0 * i + reps - 1.0) / 2.0 + 1.0, kept as twice the rank.
TwiceTieRank(i, reps) == 2 * i + reps + 1

\* common.h:300-308, the loop over the sorted pairs; indices holds twice
\* the ranks.
RECURSIVE RankLoop(_, _, _)
RankLoop(data, i, indices) ==
    IF i >= Len(data) THEN indices
    ELSE LET reps == CountReps(data, i, 1)
             tied == {data[i + j + 1].first : j \in 0 .. (reps - 1)}
         IN RankLoop(data, i + reps,
                [k \in DOMAIN indices |->
                    IF k \in tied THEN TwiceTieRank(i, reps)
                    ELSE indices[k]])

\* common.h:281-310: the vectors of (twice the) ranks that rankdata(x) can
\* return.
rankdata(x) ==
    LET data == [i \in 1 .. Len(x) |-> [first |-> i, second |-> x[i]]]
    IN {RankLoop(d, 0, [k \in 1 .. Len(x) |-> 0]) : d \in StdSort(data)}

\* data.cpp:110-111: rankdata(_gene_matrix.col(i)) / _nrows.
RankedColumns(x, nrows) ==
    {[r \in 1 .. Len(x) |-> FromRatio(twice[r], 2 * nrows)] :
        twice \in rankdata(x)}

\* data.cpp:102-104: each row divided by its L2 norm.
RECURSIVE SquaredNorm(_)
SquaredNorm(matrix_row) ==
    IF matrix_row = <<>> THEN 0
    ELSE ToInt(Head(matrix_row)) * ToInt(Head(matrix_row))
            + SquaredNorm(Tail(matrix_row))

Normalize(matrix) ==
    [r \in MatrixRows(matrix) |->
        [c \in MatrixCols(matrix) |->
            Canonical(ToInt(matrix[r][c]) * ToInt(matrix[r][c]),
                      SquaredNorm(matrix[r]))]]


(***************************************************************************)
(* Inputs of SpecRank: the matrix read_gct (data.cpp:531-601) filled and   *)
(* a gene-interval file that lists a gene absent from the matrix and the   *)
(* first k matrix genes (k = 0 .. all of them).  No --condition file is    *)
(* given, so condition() has no column to project out.                     *)
(***************************************************************************)
GctValues == {0, 1, 2}

MatrixRowNames == [i \in 1 .. NMatrixRows |-> i]

GctMatrices ==
    [1 .. NMatrixRows ->
        [1 .. NMatrixCols -> {FromInt(x) : x \in GctValues}]]

MatrixBedFile(k) ==
    <<[chrom |-> 1, start |-> 1, end |-> 1, name |-> 0]>>
    \o [i \in 1 .. k |->
            [chrom |-> 1, start |-> i + 1, end |-> i + 1, name |-> i]]

MatrixBedFiles == {MatrixBedFile(k) : k \in 0 .. NMatrixRows}

InitRank ==
    /\ IdleCondition
    /\ IdleCall
    /\ IdlePermute
    /\ IdleOutput
    /\ IdleReport
    /\ IdleSched
    /\ IdleResolve
    /\ IdleMerge
    /\ gene_intervals_file \in MatrixBedFiles
    /\ _row_names = MatrixRowNames
    /\ _gene_matrix \in GctMatrices
    /\ _nrows = 0
    /\ _binary_gene_matrix = FALSE
    /\ _binary_sums = <<>>
    /\ _binary_probs = <<>>
    /\ rank_passes = 0
    /\ ranked_once = <<>>
    /\ pc = "read_bed_interval_tree"

\* data.cpp:71-76.
ReadBedIntervalTree ==
    /\ pc = "read_bed_interval_tree"
    /\ LET out == read_bed_interval_tree(gene_intervals_file, _row_names) IN
        /\ _nrows' = out.nrows
        /\ _gene_interval_tree' = out.tree
    /\ pc' = "is_binary"
    /\ UNCHANGED <<gene_intervals_file, _row_names, _gene_matrix,
                   _binary_gene_matrix, _binary_sums, _binary_probs,
                   rank_passes, ranked_once>>
    /\ UNCHANGED <<slop, _snp_intervals, _null_snp_names, _geneset_bins,
                   bin_snps, visited, call, schedVars, mergeVars,
                   permuteVars, reportVars, outputVars, conditionVars, callVars>>

notRank == <<schedVars, resolveVars, mergeVars, permuteVars, reportVars,
            outputVars, conditionVars, callVars>>

\* data.cpp:87-94: the first column holds only 0s and 1s.
CacheBinarySums ==
    /\ pc = "is_binary"
    /\ is_binary(Column(_gene_matrix, 1))
    /\ _binary_sums' =
        [c \in MatrixCols(_gene_matrix) |->
            SumInts(Column(_gene_matrix, c))]
    /\ _binary_probs' =
        [c \in MatrixCols(_gene_matrix) |->
            FromRatio(SumInts(Column(_gene_matrix, c)), _nrows)]
    /\ _binary_gene_matrix' = TRUE
    /\ pc' = "matrix_ready"
    /\ UNCHANGED <<gene_intervals_file, _row_names, _gene_matrix, _nrows,
                   rank_passes, ranked_once, notRank>>

\* data.cpp:95-104: condition() without condition names, then the division
\* of every row by its norm.
NormalizeMatrix ==
    /\ pc = "is_binary"
    /\ ~is_binary(Column(_gene_matrix, 1))
    /\ _binary_gene_matrix' = FALSE
    /\ _gene_matrix' = Normalize(_gene_matrix)
    /\ pc' = "rank_columns"
    /\ UNCHANGED <<gene_intervals_file, _row_names, _nrows, _binary_sums,
                   _binary_probs, rank_passes, ranked_once, notRank>>

\* The matrices the loop of data.cpp:109-112 can leave: every column
\* replaced by one of the outcomes of its ranking.
RECURSIVE ColumnPicks(_, _, _)
ColumnPicks(matrix, nrows, c) ==
    IF c = 0 THEN {<<>>}
    ELSE {Append(f, ranked) :
            f \in ColumnPicks(matrix, nrows, c - 1),
            ranked \in RankedColumns(Column(matrix, c), nrows)}

RankedMatrices(matrix, nrows) ==
    {[r \in MatrixRows(matrix) |->
        [c \in MatrixCols(matrix) |-> f[c][r]]] :
        f \in ColumnPicks(matrix, nrows, Cardinality(MatrixCols(matrix)))}

\* data.cpp:109-112.
RankColumns ==
    /\ pc \in {"rank_columns", "rerank_columns"}
    /\ rank_passes < MaxRankPasses
    /\ \E ranked \in RankedMatrices(_gene_matrix, _nrows) :
        /\ _gene_matrix' = ranked
        /\ ranked_once' = IF rank_passes = 0 THEN ranked ELSE ranked_once
    /\ rank_passes' = rank_passes + 1
    /\ pc' = IF pc = "rank_columns" THEN "matrix_ready" ELSE pc
    /\ UNCHANGED <<gene_intervals_file, _row_names, _nrows,
                   _binary_gene_matrix, _binary_sums, _binary_probs,
                   notRank>>

NextRank ==
    \/ ReadBedIntervalTree
    \/ CacheBinarySums
    \/ NormalizeMatrix
    \/ RankColumns

SpecRank == InitRank /\ [][NextRank]_vars

\* The values an entry of a normalised matrix can hold.
NormalizedValues ==
    {Normalize(m)[1][1] : m \in GctMatrices}

\* The ranking step applied again and again to what it left.  The loop
\* ranks every column on its own, so _gene_matrix holds one column here:
\* its rows come from different rows of the normalised matrix and so hold
\* any combination of normalised values; _nrows is any row count that
\* read_bed_interval_tree can report.
InitRerank ==
    /\ IdleCondition
    /\ IdleCall
    /\ IdlePermute
    /\ IdleOutput
    /\ IdleReport
    /\ IdleSched
    /\ IdleResolve
    /\ IdleMerge
    /\ gene_intervals_file = <<>>
    /\ _row_names = MatrixRowNames
    /\ _gene_matrix \in [1 .. NMatrixRows -> [{1} -> NormalizedValues]]
    /\ _nrows \in 0 .. NMatrixRows
    /\ _binary_gene_matrix = FALSE
    /\ _binary_sums = <<>>
    /\ _binary_probs = <<>>
    /\ rank_passes = 0
    /\ ranked_once = <<>>
    /\ pc = "rerank_columns"

NextRerank == RankColumns

SpecRerank == InitRerank /\ [][NextRerank]_vars

(***************************************************************************)
(* C5: in quantitative mode, after the ranking step every matrix entry is  *)
(* greater than 0 and at most 1, whether or not all matrix genes appear in *)
(* the gene-interval file.                                                 *)
(***************************************************************************)
C5_RankedEntriesInUnitInterval ==
    (pc = "matrix_ready" /\ ~_binary_gene_matrix) =>
        \A r \in MatrixRows(_gene_matrix) :
            \A c \in MatrixCols(_gene_matrix) :
                /\ GT(_gene_matrix[r][c], Zero)
                /\ LE(_gene_matrix[r][c], One)

MatrixEQ(a, b) ==
    /\ Len(a) = Len(b)
    /\ \A r \in MatrixRows(a) :
        /\ Len(a[r]) = Len(b[r])
        /\ \A c \in MatrixCols(a) : EQ(a[r][c], b[r][c])

\* The entry (n + 1 - rank) / _nrows for an entry rank / _nrows of a column
\* of n rows.
MirroredEntry(v, n) ==
    LET twice == CHOOSE h \in 1 .. (2 * n) : EQ(v, FromRatio(h, 2 * _nrows))
    IN FromRatio(2 * (n + 1) - twice, 2 * _nrows)

Mirrored(matrix) ==
    [r \in MatrixRows(matrix) |->
        [c \in MatrixCols(matrix) |->
            MirroredEntry(matrix[r][c], Len(matrix))]]

MaxLoci == 2

\* _geneset_bins[s]: operator[] of the map inserts an empty vector under a
\* key the map does not hold.
BinAt(bins, s) ==
    IF s \in DOMAIN bins THEN bins
    ELSE [k \in DOMAIN bins \cup {s} |-> IF k = s THEN <<>> ELSE bins[k]]

\* data.cpp:906-909: r = distribution(generator) with the distribution over
\* 0 .. size() - 1 in unsigned long.  Every r at or past size is the same
\* to .at(r), so size stands for all of them.
DrawChoices(size) == 0 .. Min(USub(size, 1), size)

\* data.cpp:904-912: the loop over the sizes from position i on.  .at(r)
\* throws std::out_of_range when r is not below the vector's size.
RECURSIVE MatchLoop(_, _, _, _)
MatchLoop(sizes, i, bins, acc) ==
    IF i > Len(sizes)
    THEN {[status |-> "returned", bins |-> bins, genesets |-> acc]}
    ELSE LET found == BinAt(bins, sizes[i])
             bin == found[sizes[i]]
         IN UNION {IF r < Len(bin)
                   THEN MatchLoop(sizes, i + 1, found, Append(acc, bin[r + 1]))
                   ELSE {[status |-> "out_of_range", bins |-> found,
                          genesets |-> acc]} :
                   r \in DrawChoices(Len(bin))}

\* The outcomes of one call.
matched_genesets(sizes, bins) == MatchLoop(sizes, 1, bins, <<>>)

\* bin_genesets (data.cpp:880-892) applied to the genesets of a null pool.
RECURSIVE BinPool(_, _)
BinPool(pool, bins) ==
    IF pool = <<>> THEN bins
    ELSE BinPool(Tail(pool),
                 PushBack(bins, BinKey(Len(Head(pool)), MAX_GENES),
                          Head(pool)))

\* The genesets the SNPs of a null list can resolve to: two of one gene,
\* one of two genes, one of more than MAX_GENES genes.
NullPool == <<<<0>>, <<1>>, <<0, 1>>, Run(0, MAX_GENES + 1)>>

PoolPart(seq, keep) ==
    SelectSeq([i \in 1 .. Len(seq) |-> <<i, seq[i]>>],
              LAMBDA e : e[1] \in keep)

NullPools ==
    {[i \in 1 .. Len(PoolPart(NullPool, keep)) |->
        PoolPart(NullPool, keep)[i][2]] : keep \in SUBSET (1 .. Len(NullPool))}

BinTables == {BinPool(pool, EmptyMap) : pool \in NullPools}

\* The sizes of the user's loci after clamping (data.cpp:174-178).
ClampedSizes == {1, 2, MAX_GENES}

UserSizeLists ==
    UNION {[1 .. n -> ClampedSizes] : n \in 0 .. MaxLoci}

InitMatch ==
    /\ IdleCondition
    /\ IdleCall
    /\ IdleSched
    /\ IdleRank
    /\ IdleOutput
    /\ IdleReport
    /\ slop = 0
    /\ _snp_intervals = EmptyMap
    /\ _null_snp_names = {}
    /\ _gene_interval_tree = EmptyMap
    /\ _geneset_bins \in BinTables
    /\ bin_snps = EmptyMap
    /\ visited = {}
    /\ call = NoCall
    /\ _user_snp_names = {}
    /\ _user_genesets = EmptyMap
    /\ _user_geneset_sizes \in UserSizeLists
    /\ snp_genes = {}
    /\ genesets = <<>>
    /\ in_genesets = EmptyMap
    /\ loci = <<>>
    /\ passes = 0
    /\ first_output = <<>>
    /\ null_genesets = <<>>
    /\ match_status = "idle"
    /\ batch_count = 0
    /\ todo = {}
    /\ worker = EmptyMap
    /\ generator = 0
    /\ draw_scores = EmptyMap
    /\ observed_before = 0
    /\ pc = "matched_genesets"

\* One call of matched_genesets.  An exception that leaves it is caught
\* nowhere, so the process is terminated.
MatchedGenesets ==
    /\ pc = "matched_genesets"
    /\ \E out \in matched_genesets(_user_geneset_sizes, _geneset_bins) :
        /\ _geneset_bins' = out.bins
        /\ null_genesets' = out.genesets
        /\ match_status' = out.status
        /\ generator' = generator + Len(out.genesets)
                            + (IF out.status = "returned" THEN 0 ELSE 1)
        /\ pc' = IF out.status = "returned" THEN "matched" ELSE "terminated"
    /\ UNCHANGED <<slop, _snp_intervals, _null_snp_names,
                   _gene_interval_tree, bin_snps, visited, call>>
    /\ UNCHANGED <<batch_count, todo, worker, draw_scores, observed_before>>
    /\ UNCHANGED <<schedVars, mergeVars, rankVars, reportVars, outputVars,
                   conditionVars, callVars>>

NextMatch == MatchedGenesets

SpecMatch == InitMatch /\ [][NextMatch]_vars

(***************************************************************************)
(* C13: for every list of user locus sizes and every bin table made by     *)
(* bin_genesets, a call of matched_genesets returns exactly one geneset    *)
(* per locus and the i-th one is an element of bin s_i.                    *)
(***************************************************************************)
C13_OneGenesetPerLocusFromItsBin ==
    pc \in {"matched", "terminated"} =>
        /\ match_status = "returned"
        /\ Len(null_genesets) = Len(_user_geneset_sizes)
        /\ \A i \in 1 .. Len(null_genesets) :
            /\ _user_geneset_sizes[i] \in DOMAIN _geneset_bins
            /\ null_genesets[i]
                \in SeqToSet(_geneset_bins[_user_geneset_sizes[i]])


(***************************************************************************)
(* One batch of calculate_pvalues at the level of the OpenMP threads,      *)
(* data.cpp:1152-1183.  worker[w] is thread w of the parallel region:      *)
(* at is its position, i the loop index it holds, k the locus that         *)
(* matched_genesets has reached, seen the generator state it has read,     *)
(* thread_observed its private counter.                                    *)
(***************************************************************************)
\* Threads of the parallel region (data.cpp:122-123 clamps them to 1 .. cpus).
MaxWorkers == 2

\* Draws of the last, trimmed batch.
MaxCount == 2

Workers == DOMAIN worker

StartWorker ==
    [at |-> "for", i |-> 0, k |-> 1, seen |-> 0, thread_observed |-> 0]

\* data.cpp:1163-1164: the test of one draw against the user's score.
Exceeds_Strict(score, user) == score > user

Exceeds(score, user) == score >= user

\* The bin tables of a null list that covers every size, and of one whose
\* SNPs all resolve to a single gene.
BatchBinTables ==
    {BinPool(NullPool, EmptyMap), BinPool(<<NullPool[1]>>, EmptyMap)}

\* The column is in the batch after the first one: the first batch of
\* BatchStart draws left nulls_observed below min_observations.
InitBatch ==
    /\ IdleCondition
    /\ IdleCall
    /\ IdleRank
    /\ IdleOutput
    /\ IdleReport
    /\ slop = 0
    /\ _snp_intervals = EmptyMap
    /\ _null_snp_names = {}
    /\ _gene_interval_tree = EmptyMap
    /\ _geneset_bins \in BatchBinTables
    /\ bin_snps = EmptyMap
    /\ visited = {}
    /\ call = NoCall
    /\ _user_snp_names = {}
    /\ _user_genesets = EmptyMap
    /\ _user_geneset_sizes \in {<<1>>, <<2>>}
    /\ snp_genes = {}
    /\ genesets = <<>>
    /\ in_genesets = EmptyMap
    /\ loci = <<>>
    /\ passes = 0
    /\ first_output = <<>>
    /\ max_iterations \in BatchStart .. (BatchStart + MaxCount)
    /\ min_observations \in {1, 2}
    /\ col = 0
    /\ user_score \in 1 .. MaxScore
    /\ batches = iterations(BatchStart, max_iterations)
    /\ batch = 2
    /\ nulls_tested = batches[1]
    /\ nulls_observed \in 0 .. (min_observations - 1)
    /\ row = NoRow
    /\ null_draws = 0
    /\ null_genesets = <<>>
    /\ match_status = "idle"
    /\ batch_count = batches[2]
    /\ todo = {}
    /\ \E n \in 1 .. MaxWorkers : worker = [w \in 1 .. n |-> StartWorker]
    /\ generator = 0
    /\ draw_scores = EmptyMap
    /\ observed_before = nulls_observed
    /\ pc = "batch"

batchFrame == <<max_iterations, min_observations, col, user_score, batches,
                batch, row, null_draws, null_genesets, batch_count,
                observed_before>>

batchInputs == <<slop, _snp_intervals, _null_snp_names, _gene_interval_tree,
                 bin_snps, visited, call, _user_snp_names, _user_genesets,
                 _user_geneset_sizes, snp_genes, genesets, in_genesets, loci,
                 passes, first_output, rankVars, reportVars, outputVars,
                 conditionVars, callVars>>

\* #pragma omp parallel / #pragma omp for: the team starts on the indices
\* 0 .. count - 1.
EnterParallel ==
    /\ pc = "batch"
    /\ todo' = 0 .. (batch_count - 1)
    /\ pc' = "parallel"
    /\ UNCHANGED <<worker, generator, draw_scores, nulls_observed,
                   nulls_tested, match_status, _geneset_bins>>
    /\ UNCHANGED <<batchFrame, batchInputs>>

\* #pragma omp for hands each index to one thread; a thread that finds no
\* index left waits at the barrier that ends the loop.
TakeIndex(w) ==
    /\ pc = "parallel"
    /\ worker[w].at = "for"
    /\ IF todo = {}
       THEN /\ worker' = [worker EXCEPT ![w].at = "barrier"]
            /\ todo' = todo
       ELSE \E i \in todo :
            /\ todo' = todo \ {i}
            /\ worker' = [worker EXCEPT ![w].at = "draw", ![w].i = i,
                                        ![w].k = 1]
    /\ UNCHANGED <<generator, draw_scores, nulls_observed, nulls_tested,
                   match_status, _geneset_bins, pc>>
    /\ UNCHANGED <<batchFrame, batchInputs>>

\* matched_genesets at locus k: _geneset_bins[s] and the start of
\* distribution(generator), which reads the state of the static generator.
\* With no bin of that size .at(r) throws and the process is terminated.
BeginDraw(w) ==
    /\ pc = "parallel"
    /\ worker[w].at = "draw"
    /\ LET s == _user_geneset_sizes[worker[w].k]
           found == BinAt(_geneset_bins, s)
       IN /\ _geneset_bins' = found
          /\ IF found[s] = <<>>
             THEN /\ match_status' = "out_of_range"
                  /\ pc' = "terminated"
                  /\ worker' = worker
             ELSE /\ worker' = [worker EXCEPT ![w].at = "advance",
                                              ![w].seen = generator]
                  /\ UNCHANGED <<match_status, pc>>
    /\ UNCHANGED <<todo, generator, draw_scores, nulls_observed,
                   nulls_tested>>
    /\ UNCHANGED <<batchFrame, batchInputs>>

\* The end of distribution(generator): the advanced state is written back.
\* Nothing orders it with the other threads' accesses, so a thread can
\* overwrite an advance made since its read; whatever state results, the
\* distribution maps the generator's output into 0 .. size() - 1.
\* After the last locus the scoring function runs on the drawn genesets and
\* its result is tested against the user's score (data.cpp:1163-1166).
EndDraw(w) ==
    /\ pc = "parallel"
    /\ worker[w].at = "advance"
    /\ generator' = worker[w].seen + 1
    /\ IF worker[w].k < Len(_user_geneset_sizes)
       THEN /\ worker' = [worker EXCEPT ![w].at = "draw", ![w].k = @ + 1]
            /\ draw_scores' = draw_scores
       ELSE \E score \in ScoreLevels :
            /\ draw_scores' =
                PushBack(draw_scores, worker[w].i, score)
            /\ worker' = [worker EXCEPT
                   ![w].at = "for",
                   ![w].thread_observed =
                       IF Exceeds(score, user_score) THEN @ + 1 ELSE @]
    /\ UNCHANGED <<todo, nulls_observed, nulls_tested, match_status,
                   _geneset_bins, pc>>
    /\ UNCHANGED <<batchFrame, batchInputs>>

\* #pragma omp critical, entered once every thread has left the loop.
Critical(w) ==
    /\ pc = "parallel"
    /\ worker[w].at = "barrier"
    /\ \A v \in Workers : worker[v].at \in {"barrier", "done"}
    /\ nulls_observed' = nulls_observed + worker[w].thread_observed
    /\ worker' = [worker EXCEPT ![w].at = "done"]
    /\ UNCHANGED <<todo, generator, draw_scores, nulls_tested, match_status,
                   _geneset_bins, pc>>
    /\ UNCHANGED <<batchFrame, batchInputs>>

\* The end of the parallel region and nulls_tested += count.
LeaveParallel ==
    /\ pc = "parallel"
    /\ \A v \in Workers : worker[v].at = "done"
    /\ nulls_tested' = nulls_tested + batch_count
    /\ pc' = "emit"
    /\ UNCHANGED <<todo, worker, generator, draw_scores, nulls_observed,
                   match_status, _geneset_bins>>
    /\ UNCHANGED <<batchFrame, batchInputs>>

NextBatch ==
    \/ EnterParallel
    \/ \E w \in Workers : TakeIndex(w)
    \/ \E w \in Workers : BeginDraw(w)
    \/ \E w \in Workers : EndDraw(w)
    \/ \E w \in Workers : Critical(w)
    \/ LeaveParallel

SpecBatch == InitBatch /\ [][NextBatch]_vars

(***************************************************************************)
(* C14: during a batch no two worker threads are inside an access to the   *)
(* random generator of the null draws at the same time.                    *)
(***************************************************************************)
C14_GeneratorAccessSerialized ==
    Cardinality({w \in Workers : worker[w].at = "advance"}) <= 1

(***************************************************************************)
(* C16: at the end of a batch of count draws every index in 0 .. count - 1 *)
(* has been scored exactly once, nulls_observed has grown by the number of *)
(* draws whose score is at least user_score, and nulls_tested has grown    *)
(* by count.                                                               *)
(***************************************************************************)
C16_BatchCountsEveryDrawOnce ==
    pc = "emit" =>
        /\ DOMAIN draw_scores = 0 .. (batch_count - 1)
        /\ \A i \in DOMAIN draw_scores : Len(draw_scores[i]) = 1
        /\ nulls_observed = observed_before
             + Cardinality({i \in DOMAIN draw_scores :
                               draw_scores[i][1] >= user_score})
        /\ nulls_tested = batches[1] + batch_count

\* Two threads shared a batch of two draws, their generator accesses
\* overlapped, and one draw tied with the user's score.
C16_Witness ==
    /\ pc = "emit"
    /\ batch_count = 2
    /\ Cardinality(Workers) = 2
    /\ \A w \in Workers : worker[w].thread_observed = 1
    /\ generator = 1
    /\ \E i \in DOMAIN draw_scores : draw_scores[i] = <<user_score>>

(***************************************************************************)
(* C15: during the permutation phase the bin table (its key set and every  *)
(* list), the gene matrix, the binary sums and the user's geneset sizes    *)
(* are not changed.                                                        *)
(***************************************************************************)
C15_PermutationReadsOnly ==
    [][/\ _geneset_bins' = _geneset_bins
       /\ _gene_matrix' = _gene_matrix
       /\ _binary_sums' = _binary_sums
       /\ _user_geneset_sizes' = _user_geneset_sizes]_vars

(***************************************************************************)
(* overlap_genes, data.cpp:603-637, followed by merging and the report of  *)
(* snp_genes.txt.                                                          *)
(***************************************************************************)
\* data.cpp:627-631: a SNP whose gene_ids is empty is naked.
IsNaked_Never(gene_ids) == FALSE

IsNaked(gene_ids) == Len(gene_ids) = 0

overlap_genes(snp_names, slop_) ==
    LET found == {snp \in snp_names : snp \in DOMAIN _snp_intervals}
        hit == {snp \in found : ~IsNaked(snp_geneset(snp, slop_).indices)}
    IN [absent_snp_names |-> snp_names \ found,
        naked_snp_names |-> _user_naked_snp_names \cup (found \ hit),
        genesets |-> [snp \in hit |-> snp_geneset(snp, slop_).indices],
        geneset_sizes |-> <<>>]

\* Intervals of the user's SNPs: from coordinate 0 to gene 1, on gene 1, on
\* gene 2, across both, and on the last chromosome farther from its gene
\* than any slop reaches.
OverlapIntervals ==
    {[chrom |-> 1, start |-> 0, end |-> GeneFirst],
     [chrom |-> 1, start |-> GeneFirst, end |-> GeneFirst],
     [chrom |-> 1, start |-> GeneFirst + 1, end |-> GeneFirst + 1],
     [chrom |-> 1, start |-> GeneFirst, end |-> GeneFirst + 1],
     [chrom |-> NChroms, start |-> GeneFirst + NGenes + MaxSlop + 1,
      end |-> GeneFirst + NGenes + MaxSlop + 1]}

InitOverlap ==
    /\ IdleCondition
    /\ IdleCall
    /\ IdlePermute
    /\ IdleOutput
    /\ IdleSched
    /\ IdleRank
    /\ IdleReport
    /\ IdleMerge
    /\ slop \in SlopChoices
    /\ \E present \in SUBSET UserSnps :
        _snp_intervals \in [present -> OverlapIntervals]
    /\ _null_snp_names = {}
    /\ _gene_interval_tree = read_bed_interval_tree(GeneBedFile, RowNames).tree
    /\ _geneset_bins = EmptyMap
    /\ bin_snps = EmptyMap
    /\ visited = {}
    /\ call = NoCall
    /\ pc = "read_user_snps"

\* data.cpp:139-162: the user's SNP names are read, then overlap_genes runs
\* on them.
OverlapGenes ==
    /\ pc = "read_user_snps"
    /\ LET out == overlap_genes(UserSnps, slop) IN
        /\ _user_snp_names' = UserSnps
        /\ _user_absent_snp_names' = out.absent_snp_names
        /\ _user_naked_snp_names' = out.naked_snp_names
        /\ _user_genesets' = out.genesets
        /\ in_genesets' = out.genesets
        /\ _user_geneset_sizes' = out.geneset_sizes
    /\ pc' = "merge_user_snps"
    /\ UNCHANGED <<snp_genes, genesets, loci, passes, first_output, snp_rows,
                   notMerge>>

NextOverlap ==
    \/ OverlapGenes
    \/ MergeUserSnps
    \/ ReportUserSnpGenes
    \/ ClampSizes
    \/ CollectGenesets

SpecOverlap == InitOverlap /\ [][NextOverlap]_vars

(***************************************************************************)
(* C17: every input user SNP is reported exactly once in snp_genes.txt: as *)
(* an NA row if it is absent from the SNP-interval map, as a zero-gene row *)
(* if it overlaps no gene after slop, and as a member of exactly one locus *)
(* label otherwise; only SNPs of the last kind contribute a geneset to     *)
(* scoring.                                                                *)
(***************************************************************************)
RowsOf(snp, n_genes) ==
    Cardinality({i \in 1 .. Len(snp_rows) :
                    snp_rows[i] = [snp |-> snp, n_genes |-> n_genes]})

LociOf(snp) == Cardinality({r \in snp_genes : snp \in Members(r.snp)})

Kind(snp) ==
    IF snp \notin DOMAIN _snp_intervals THEN "absent"
    ELSE IF Len(snp_geneset(snp, slop).indices) = 0 THEN "naked"
    ELSE "locus"

C17_EverySnpReportedOnce ==
    /\ pc \in {"clamp_sizes", "collect_genesets", "done"} =>
        \A snp \in UserSnps :
            /\ RowsOf(snp, "NA") = (IF Kind(snp) = "absent" THEN 1 ELSE 0)
            /\ RowsOf(snp, "0") = (IF Kind(snp) = "naked" THEN 1 ELSE 0)
            /\ LociOf(snp) = (IF Kind(snp) = "locus" THEN 1 ELSE 0)
            /\ Len(snp_rows)
                 + Cardinality(UNION {Members(r.snp) : r \in snp_genes})
                 = Cardinality(UserSnps)
    /\ pc = "done" =>
        /\ Len(genesets) = Cardinality(snp_genes)
        /\ \A r \in snp_genes :
            /\ r.n_genes > 0
            /\ \E i \in 1 .. Len(genesets) : genesets[i] = r.genes
            /\ \A snp \in Members(r.snp) : Kind(snp) = "locus"
        /\ \A i \in 1 .. Len(genesets) :
            \E r \in snp_genes : genesets[i] = r.genes

\* One SNP without a geneset and a locus that two other SNPs were merged
\* into.
C17_Witness ==
    /\ pc = "done"
    /\ Len(snp_rows) = 1
    /\ Cardinality(snp_genes) = 1
    /\ \E a, b \in UserSnps :
        /\ Kind(a) = "locus" /\ Kind(b) = "locus" /\ a # b
        /\ LociOf(a) = 1 /\ LociOf(b) = 1

(***************************************************************************)
(* The p-value files: the null replicates and the user's pass,             *)
(* data.cpp:203-268, and the way calculate_pvalues opens its file and      *)
(* ends its rows, data.cpp:1108-1133, 1140-1147, 1194-1208.  A file is the *)
(* sequence of its lines.                                                  *)
(***************************************************************************)
\* Largest --null-snpsets tried.
MaxReplicates == 2

Header == [kind |-> "header"]

\* data.cpp:1123-1133: std::fstream::out truncates, out | app keeps what
\* the file holds.
OpenStream(file, replicates) ==
    IF replicates <= 1 THEN <<Header>> ELSE file

\* data.cpp:1140-1147 and 1194-1208: the row of column c; tested tells
\* whether the column went through the batches or was skipped.
PvalueLine(c, tested, replicates, replicate_) ==
    IF replicates > 1
    THEN [kind |-> "row", condition |-> c, tested |-> tested,
          replicate |-> replicate_]
    ELSE [kind |-> "row", condition |-> c, tested |-> tested]

\* One call: the file after it, given which columns were tested.
calculate_pvalues(file, tested, replicates, replicate_) ==
    OpenStream(file, replicates)
    \o [c \in 1 .. NCols |->
            PvalueLine(c - 1, tested[c], replicates, replicate_)]

\* What an out folder may hold: nothing, or the file of an earlier run.
EarlierFiles == {<<>>, <<[kind |-> "earlier"]>>}

InitOutput ==
    /\ IdleCondition
    /\ IdleCall
    /\ IdlePermute
    /\ IdleSched
    /\ IdleResolve
    /\ IdleMerge
    /\ IdleRank
    /\ IdleReport
    /\ null_snpset_replicates \in 0 .. MaxReplicates
    /\ replicate = 0 - 1
    /\ calls = 0
    /\ null_pvalues \in EarlierFiles
    /\ condition_pvalues \in EarlierFiles
    /\ pc = "null_replicates"

outputFrame == <<schedVars, resolveVars, mergeVars, rankVars, permuteVars,
                 reportVars, conditionVars, callVars>>

\* data.cpp:212-241: one null replicate.
NullReplicate ==
    /\ pc = "null_replicates"
    /\ calls < null_snpset_replicates
    /\ replicate' = replicate + 1
    /\ \E tested \in [1 .. NCols -> BOOLEAN] :
        null_pvalues' = calculate_pvalues(null_pvalues, tested,
                                          null_snpset_replicates,
                                          replicate + 1)
    /\ calls' = calls + 1
    /\ UNCHANGED <<pc, null_snpset_replicates, condition_pvalues,
                   outputFrame>>

\* data.cpp:249-268: the user's pass, calculate_pvalues with replicates 1.
UserPass ==
    /\ pc = "null_replicates"
    /\ calls >= null_snpset_replicates
    /\ replicate' = replicate + 1
    /\ \E tested \in [1 .. NCols -> BOOLEAN] :
        condition_pvalues' = calculate_pvalues(condition_pvalues, tested, 1,
                                               replicate + 1)
    /\ pc' = "done"
    /\ UNCHANGED <<calls, null_snpset_replicates, null_pvalues, outputFrame>>

NextOutput ==
    \/ NullReplicate
    \/ UserPass

SpecOutput == InitOutput /\ [][NextOutput]_vars

(***************************************************************************)
(* C18: for N >= 1 null replicates and C scored columns, null_pvalues.txt  *)
(* holds no header and exactly N x C rows, each ending with a replicate    *)
(* index, the indices being 0 .. N-1 in order; the user's pass writes a    *)
(* header and C rows without index to condition_pvalues.txt only.          *)
(***************************************************************************)
C18_NullFileIndexedRowsOnly ==
    (pc = "done" /\ null_snpset_replicates >= 1) =>
        /\ Len(null_pvalues) = null_snpset_replicates * NCols
        /\ \A j \in 1 .. Len(null_pvalues) :
            /\ null_pvalues[j].kind = "row"
            /\ DOMAIN null_pvalues[j]
                 = {"kind", "condition", "tested", "replicate"}
            /\ null_pvalues[j].replicate = (j - 1) \div NCols
            /\ null_pvalues[j].condition = (j - 1) % NCols
        /\ Len(condition_pvalues) = NCols + 1
        /\ condition_pvalues[1] = Header
        /\ \A j \in 2 .. Len(condition_pvalues) :
            /\ DOMAIN condition_pvalues[j] = {"kind", "condition", "tested"}
            /\ condition_pvalues[j].condition = j - 2

(***************************************************************************)
(* The user's pass column by column over a bin table that bin_genesets     *)
(* left, data.cpp:115-118 and 1099-1210.  Nothing between bin_genesets and *)
(* the pass looks at the table.                                            *)
(***************************************************************************)
InitUserPass ==
    /\ IdleCondition
    /\ IdleCall
    /\ IdleRank
    /\ IdleReport
    /\ IdleSched
    /\ slop = 0
    /\ _snp_intervals = EmptyMap
    /\ _null_snp_names = {}
    /\ _gene_interval_tree = EmptyMap
    /\ _geneset_bins \in BinTables
    /\ bin_snps = EmptyMap
    /\ visited = {}
    /\ call = NoCall
    /\ _user_snp_names = {}
    /\ _user_genesets = EmptyMap
    /\ _user_geneset_sizes \in UserSizeLists
    /\ snp_genes = {}
    /\ genesets = <<>>
    /\ in_genesets = EmptyMap
    /\ loci = <<>>
    /\ passes = 0
    /\ first_output = <<>>
    /\ IdlePermute
    /\ null_snpset_replicates = 0
    /\ replicate = 0 - 1
    /\ calls = 0
    /\ null_pvalues = <<>>
    /\ condition_pvalues = <<>>
    /\ pc = "calculate_pvalues"

userPassFrame == <<max_iterations, min_observations, batches, batch,
                   nulls_tested, nulls_observed, row, null_draws, slop,
                   _snp_intervals, _null_snp_names, _gene_interval_tree,
                   bin_snps, visited, call, mergeVars, rankVars, reportVars,
                   batch_count, todo, worker, draw_scores, observed_before,
                   null_snpset_replicates, calls, null_pvalues,
                   conditionVars, callVars>>

\* data.cpp:1108-1127: replicate++ and the file opened with its header.
OpenConditionFile ==
    /\ pc = "calculate_pvalues"
    /\ replicate' = replicate + 1
    /\ condition_pvalues' = OpenStream(condition_pvalues, 1)
    /\ pc' = "column"
    /\ UNCHANGED <<col, user_score, _geneset_bins, null_genesets,
                   match_status, generator, userPassFrame>>

\* data.cpp:1135-1147: a column the user's loci score at most 0 in.
SkipColumn ==
    /\ pc = "column"
    /\ \E score \in ScoreLevels :
        /\ score <= 0
        /\ user_score' = score
    /\ condition_pvalues' =
        Append(condition_pvalues, PvalueLine(col, FALSE, 1, replicate))
    /\ col' = col + 1
    /\ pc' = IF col + 1 < NCols THEN "column" ELSE "done"
    /\ UNCHANGED <<_geneset_bins, null_genesets, match_status, generator,
                   replicate, userPassFrame>>

\* data.cpp:1149-1208: a column that is tested.  Its first draw calls
\* matched_genesets; an exception that leaves it terminates the process
\* before the column's row is written.
TestColumn ==
    /\ pc = "column"
    /\ \E score \in ScoreLevels :
        /\ score > 0
        /\ user_score' = score
    /\ \E out \in matched_genesets(_user_geneset_sizes, _geneset_bins) :
        /\ _geneset_bins' = out.bins
        /\ null_genesets' = out.genesets
        /\ match_status' = out.status
        /\ generator' = generator + Len(out.genesets)
                            + (IF out.status = "returned" THEN 0 ELSE 1)
        /\ IF out.status = "returned"
           THEN /\ condition_pvalues' =
                    Append(condition_pvalues,
                           PvalueLine(col, TRUE, 1, replicate))
                /\ col' = col + 1
                /\ pc' = IF col + 1 < NCols THEN "column" ELSE "done"
           ELSE /\ pc' = "terminated"
                /\ UNCHANGED <<condition_pvalues, col>>
    /\ UNCHANGED <<replicate, userPassFrame>>

NextUserPass ==
    \/ OpenConditionFile
    \/ SkipColumn
    \/ TestColumn

SpecUserPass == InitUserPass /\ [][NextUserPass]_vars

(***************************************************************************)
(* C19: when the bin table is empty after bin_genesets, the run ends in a  *)
(* fatal error state and no p-value row is written.                        *)
(***************************************************************************)
EmptyNullPool == \A k \in DOMAIN _geneset_bins : _geneset_bins[k] = <<>>

C19_EmptyNullPoolIsFatal ==
    EmptyNullPool =>
        /\ pc # "done"
        /\ \A j \in 1 .. Len(condition_pvalues) :
            condition_pvalues[j].kind # "row"

(***************************************************************************)
(* C20: for every max_iterations >= 1 the schedule                         *)
(* iterations(100, max_iterations) starts with a batch of 100, every       *)
(* non-final batch is twice its predecessor, the final batch is trimmed to *)
(* fit and the sizes sum to max_iterations; a column that never reaches    *)
(* min_observations ends with nulls_tested = max_iterations, and with      *)
(* nulls_observed = 0 its p-value is 1 / (max_iterations + 1).             *)
(***************************************************************************)
C20_ScheduleSumsToMaxIterations ==
    /\ batches # <<>> =>
        /\ batches[1] = BatchStart
        /\ \A i \in 2 .. (Len(batches) - 1) : batches[i] = 2 * batches[i - 1]
        /\ batches[Len(batches)] <= 2 * batches[Len(batches) - 1]
        /\ SumOfFirst(batches, Len(batches)) = max_iterations
    /\ (pc = "emit" /\ nulls_observed < min_observations) =>
        nulls_tested = max_iterations
    /\ (row # NoRow /\ row.nulls_tested > 0 /\ row.nulls_observed = 0) =>
        row.pvalue = <<1, max_iterations + 1>>

(***************************************************************************)
(* condition, data.cpp:836-870, and removeColumns, common.h:235-264.  In   *)
(* this part a matrix entry is the exact rational <<numerator,             *)
(* denominator>> with a positive denominator, and <<0, 0>> is NaN.         *)
(***************************************************************************)
\* Columns of the matrix that is conditioned.
NCondCols == 3

\* Most names the --condition file lists.
MaxConditions == 2

Abs(x) == IF x < 0 THEN 0 - x ELSE x

\* n / d in lowest terms.  The only division by zero condition can make is
\* 0 / 0 (b.dot(b) = 0 only for b = 0, where a.dot(b) = 0 too): NaN.
Q(n, d) ==
    IF d = 0 THEN NaN
    ELSE LET g == GCD(Abs(n), Abs(d))
             sign == IF d < 0 THEN 0 - 1 ELSE 1
         IN <<sign * (n \div g), sign * (d \div g)>>

QAdd(a, b) ==
    IF IsNaN(a) \/ IsNaN(b) THEN NaN
    ELSE Q(a[1] * b[2] + b[1] * a[2], a[2] * b[2])

QSub(a, b) ==
    IF IsNaN(a) \/ IsNaN(b) THEN NaN
    ELSE Q(a[1] * b[2] - b[1] * a[2], a[2] * b[2])

QMul(a, b) ==
    IF IsNaN(a) \/ IsNaN(b) THEN NaN ELSE Q(a[1] * b[1], a[2] * b[2])

QDiv(a, b) ==
    IF IsNaN(a) \/ IsNaN(b) THEN NaN ELSE Q(a[1] * b[2], a[2] * b[1])

\* a.dot(b)
RECURSIVE Dot(_, _)
Dot(a, b) ==
    IF a = <<>> THEN <<0, 1>>
    ELSE QAdd(QMul(Head(a), Head(b)), Dot(Tail(a), Tail(b)))

\* data.cpp:852: const auto b = VectorXd(matrix.col(col_index)), a copy of
\* the column as the matrix holds it now.
ProjectionVector_Stale(current, stale, col_index) ==
    Column(stale, col_index)

ProjectionVector(current, stale, col_index) ==
    Column(current, col_index)

\* data.cpp:854-859: every column a loses a.dot(b) / b.dot(b) * b.
Project(matrix, b) ==
    [r \in MatrixRows(matrix) |->
        [c \in MatrixCols(matrix) |->
            QSub(matrix[r][c],
                 QMul(QDiv(Dot(Column(matrix, c), b), Dot(b, b)), b[r]))]]

\* std::find(_col_names.begin(), _col_names.end(), col_name) - begin(),
\* counted from 1: the first position that holds the name.
FindName(col_names, col_name) ==
    CHOOSE i \in 1 .. Len(col_names) :
        /\ col_names[i] = col_name
        /\ \A j \in 1 .. (i - 1) : col_names[j] # col_name

\* common.h:244-251, the loop of unsafeRemoveColumns from the last index
\* down: the block of nC columns right of the index moves one to the left.
\* cols is m.cols(), sorted holds the indices (from 1) in ascending order.
RECURSIVE RemoveLoop(_, _, _, _)
RemoveLoop(matrix, sorted, pos, k) ==
    IF pos = 0 THEN matrix
    ELSE LET cols == Cardinality(MatrixCols(matrix))
             idx == sorted[pos]
             nC == cols - (idx - 1) - k
             moved == [r \in MatrixRows(matrix) |->
                          [c \in MatrixCols(matrix) |->
                              IF c >= idx /\ c < idx + nC
                              THEN matrix[r][c + 1] ELSE matrix[r][c]]]
         IN RemoveLoop(moved, sorted, pos - 1, k + 1)

\* std::unique of a sorted vector.
RECURSIVE Unique(_)
Unique(sorted) ==
    IF Len(sorted) <= 1 THEN sorted
    ELSE IF sorted[1] = sorted[2] THEN Unique(Tail(sorted))
    ELSE <<sorted[1]>> \o Unique(Tail(sorted))

\* common.h:255-264: the indices sorted and made unique, the loop, and
\* conservativeResize to cols - idxs.size() columns.
removeColumns(idxsToRemove, matrix) ==
    LET unique == Unique(Sort(idxsToRemove))
        moved == RemoveLoop(matrix, unique, Len(unique), 1)
        kept == Cardinality(MatrixCols(matrix)) - Len(unique)
    IN [r \in MatrixRows(matrix) |-> [c \in 1 .. kept |-> moved[r][c]]]

\* data.cpp:862-867: the indices sorted descending and each name erased.
RECURSIVE EraseNames(_, _)
EraseNames(names, descending) ==
    IF descending = <<>> THEN names
    ELSE LET idx == Head(descending)
         IN EraseNames(SubSeq(names, 1, idx - 1)
                           \o SubSeq(names, idx + 1, Len(names)),
                       Tail(descending))

Reverse(seq) == [i \in 1 .. Len(seq) |-> seq[Len(seq) + 1 - i]]

\* Columns a quantitative GCT file can hold (two rows).
CondColumns == {<<<<2, 1>>, <<0, 1>>>>, <<<<0, 1>>, <<1, 1>>>>,
                <<<<1, 1>>, <<1, 1>>>>, <<<<1, 1>>, <<2, 1>>>>}

CondMatrices ==
    {[r \in 1 .. 2 |-> [c \in 1 .. NCondCols |-> cols[c][r]]] :
        cols \in [1 .. NCondCols -> CondColumns]}

\* Column names as read_gct stores them, which does not look for repeats:
\* in order, reversed, and with the first name on the second column too.
ColNameChoices ==
    {[c \in 1 .. NCondCols |-> <<c>>],
     [c \in 1 .. NCondCols |-> <<NCondCols + 1 - c>>],
     [c \in 1 .. NCondCols |-> <<Max(1, c - 1)>>]}

\* --condition files that pass report_missing_conditions (data.cpp:809-834):
\* lists of different names, every one a column name.
ConditionFiles(col_names) ==
    UNION {{f \in [1 .. n -> SeqToSet(col_names)] :
               \A i, j \in 1 .. n : i # j => f[i] # f[j]} :
           n \in 0 .. MaxConditions}

InitCondition ==
    /\ IdleCall
    /\ IdlePermute
    /\ IdleOutput
    /\ IdleReport
    /\ IdleSched
    /\ IdleResolve
    /\ IdleMerge
    /\ gene_intervals_file = <<>>
    /\ _row_names = <<1, 2>>
    /\ _gene_matrix \in CondMatrices
    /\ ~is_binary(Column(_gene_matrix, 1))
    /\ _nrows = 2
    /\ _binary_gene_matrix = FALSE
    /\ _binary_sums = <<>>
    /\ _binary_probs = <<>>
    /\ rank_passes = 0
    /\ ranked_once = <<>>
    /\ _col_names \in ColNameChoices
    /\ condition_file \in ConditionFiles(_col_names)
    /\ _condition_names = SeqToSet(condition_file)
    /\ cond_rest = _condition_names
    /\ idxs = <<>>
    /\ turns = <<>>
    /\ before_step = _gene_matrix
    /\ col_names_in = _col_names
    /\ pc = "condition"

conditionFrame == <<gene_intervals_file, _row_names, _nrows,
                    _binary_gene_matrix, _binary_sums, _binary_probs,
                    rank_passes, ranked_once, _condition_names,
                    condition_file, col_names_in, schedVars, resolveVars,
                    mergeVars, permuteVars, reportVars, outputVars,
                    callVars>>

\* data.cpp:846-860: one turn of the loop over the std::set col_names.
ConditionTurn ==
    /\ pc = "condition"
    /\ cond_rest # {}
    /\ LET col_name == SetOrder(cond_rest)[1]
           col_index == FindName(_col_names, col_name)
           b == ProjectionVector(_gene_matrix, before_step, col_index)
       IN /\ cond_rest' = cond_rest \ {col_name}
          /\ idxs' = Append(idxs, col_index)
          /\ _gene_matrix' = Project(_gene_matrix, b)
          /\ turns' = Append(turns, [name |-> col_name, idx |-> col_index,
                                     b |-> b])
    /\ before_step' = _gene_matrix
    /\ UNCHANGED <<pc, _col_names, conditionFrame>>

\* data.cpp:861-869: the columns and their names removed.
RemoveConditions ==
    /\ pc = "condition"
    /\ cond_rest = {}
    /\ _gene_matrix' = removeColumns(idxs, _gene_matrix)
    /\ _col_names' = EraseNames(_col_names, Reverse(Sort(idxs)))
    /\ before_step' = _gene_matrix
    /\ pc' = "conditioned"
    /\ UNCHANGED <<cond_rest, idxs, turns, conditionFrame>>

NextCondition ==
    \/ ConditionTurn
    \/ RemoveConditions

SpecCondition == InitCondition /\ [][NextCondition]_vars

(***************************************************************************)
(* C21: after condition() with a set B of condition names that are all     *)
(* among the C column names, the matrix has C - |B| columns, the column    *)
(* names are the original sequence with exactly the names in B removed,    *)
(* in their old order, and column j of the matrix holds the data of the    *)
(* column whose name is at position j.                                     *)
(***************************************************************************)
\* The original positions whose name is not in B, in ascending order.
Surviving(names, B) ==
    SelectSeq([i \in 1 .. Len(names) |-> i], LAMBDA i : names[i] \notin B)

C21_ConditionColumnsRemoved ==
    pc = "conditioned" =>
        LET kept == Surviving(col_names_in, _condition_names) IN
        /\ Len(_col_names) = Len(col_names_in) - Cardinality(_condition_names)
        /\ Cardinality(MatrixCols(_gene_matrix)) = Len(_col_names)
        /\ _col_names = [j \in 1 .. Len(kept) |-> col_names_in[kept[j]]]
        /\ SeqToSet(_col_names) \cap _condition_names = {}
        /\ \A j \in 1 .. Len(kept) :
            Column(_gene_matrix, j) = Column(before_step, kept[j])

(***************************************************************************)
(* C22 as stated: condition columns are projected out in the order in      *)
(* which their names appear in the conditions input, and each projection   *)
(* vector b is read from the current, already-conditioned matrix when its  *)
(* turn comes.                                                             *)
(***************************************************************************)
\* The b of the last turn is the column the matrix held when the turn began.
LastReadIsCurrent ==
    (pc = "condition" /\ turns # <<>>) =>
        turns[Len(turns)].b = Column(before_step, turns[Len(turns)].idx)

HasNaN(matrix) ==
    \E r \in MatrixRows(matrix) : \E c \in MatrixCols(matrix) :
        IsNaN(matrix[r][c])

\* Every column is orthogonal to every b used so far.
OrthogonalToAll ==
    (pc = "condition" /\ ~HasNaN(_gene_matrix)) =>
        \A i \in 1 .. Len(turns) : \A c \in MatrixCols(_gene_matrix) :
            Dot(Column(_gene_matrix, c), turns[i].b) = <<0, 1>>

C22_ProjectedInInputOrder ==
    /\ \A i \in 1 .. Len(turns) : turns[i].name = condition_file[i]
    /\ LastReadIsCurrent
    /\ OrthogonalToAll

(***************************************************************************)
(* C22 as the code has it: condition columns are projected out in          *)
(* ascending order of their names, the iteration order of the name set,    *)
(* whatever order the conditions input lists them in; each projection      *)
(* vector b is read from the current, already-conditioned matrix when its  *)
(* turn comes, so every column ends orthogonal to every b.                 *)
(***************************************************************************)
C22_ProjectedInNameOrder ==
    /\ \A i \in 1 .. Len(turns) :
        turns[i].name = SetOrder(_condition_names)[i]
    /\ LastReadIsCurrent
    /\ OrthogonalToAll

\* Two turns whose order is the reverse of the file's, the second with a b
\* that the first turn changed.
C22_Witness ==
    /\ pc = "condition"
    /\ Len(turns) = 2
    /\ condition_file = <<turns[2].name, turns[1].name>>
    /\ turns[2].b \notin CondColumns
    /\ ~HasNaN(_gene_matrix)

(***************************************************************************)
(* rankdata on its own, common.h:281-310.  The constructor calls it on     *)
(* every column of the normalised matrix (data.cpp:109-112), so x holds    *)
(* values an entry of that matrix can hold: a row of zeros divided by its  *)
(* norm 0 leaves NaN in every column.                                      *)
(***************************************************************************)
MaxRankLen == 3

RankInputs ==
    UNION {[1 .. n -> NormalizedValues] : n \in 1 .. MaxRankLen}

InitRankdata ==
    /\ IdleCondition
    /\ IdlePermute
    /\ IdleOutput
    /\ IdleReport
    /\ IdleSched
    /\ IdleResolve
    /\ IdleMerge
    /\ IdleRank
    /\ IdleReadNames
    /\ IdleRandom
    /\ IdleScore
    /\ rank_x \in RankInputs
    /\ rank_indices = <<>>
    /\ pc = "rankdata"

notCall == <<schedVars, resolveVars, mergeVars, rankVars, permuteVars,
             reportVars, outputVars, conditionVars>>

Rankdata ==
    /\ pc = "rankdata"
    /\ rank_indices' \in rankdata(rank_x)
    /\ pc' = "ranked"
    /\ UNCHANGED <<rank_x, names_file, row_number, found_snp, snp_col,
                   names_read, n_random, random_names, random_result,
                   score_method, score_function, n1, n2, notCall>>

NextRankdata == Rankdata

SpecRankdata == InitRankdata /\ [][NextRankdata]_vars

RECURSIVE SumSeq(_)
SumSeq(v) == IF v = <<>> THEN 0 ELSE Head(v) + SumSeq(Tail(v))

\* Twice the mean of the positions that the entries equal to x[i] take in
\* descending order: they follow the g greater entries.
TwiceMeanPosition(x, i) ==
    LET g == Cardinality({j \in 1 .. Len(x) : GT(x[j], x[i])})
        t == Cardinality({j \in 1 .. Len(x) : EQ(x[j], x[i])})
    IN 2 * g + t + 1

(***************************************************************************)
(* C23: for every vector x of n values rankdata assigns descending-order   *)
(* ranks with ties averaged: a greater value has a smaller rank, equal     *)
(* values share the mean of the positions they take, the ranks sum to      *)
(* n (n + 1) / 2, and a permutation of the input permutes the output the   *)
(* same way.  rank_indices holds twice the ranks.                          *)
(***************************************************************************)
C23_RanksDescendingTiesAveraged ==
    pc = "ranked" =>
        LET n == Len(rank_x) IN
        /\ \A i \in 1 .. n : \A j \in 1 .. n :
            GT(rank_x[i], rank_x[j]) => rank_indices[i] < rank_indices[j]
        /\ \A i \in 1 .. n : \A j \in 1 .. n :
            EQ(rank_x[i], rank_x[j]) =>
                /\ rank_indices[i] = rank_indices[j]
                /\ rank_indices[i] = TwiceMeanPosition(rank_x, i)
        /\ SumSeq(rank_indices) = n * (n + 1)
        /\ \A o \in Orders(1 .. n) :
            \A permuted \in rankdata([i \in 1 .. n |-> rank_x[o[i]]]) :
                permuted = [i \in 1 .. n |-> rank_indices[o[i]]]

(***************************************************************************)
(* C24: for every merged locus the interval written to snp_genes.txt has   *)
(* as start the least start and as end the greatest end of the intervals   *)
(* of its member SNPs, for every combination of coordinates (coordinate 0  *)
(* included) and every order of the members.                               *)
(***************************************************************************)
C24_MergedIntervalIsMinStartMaxEnd ==
    pc \in {"clamp_sizes", "collect_genesets", "done"} =>
        \A r \in snp_genes :
            Len(r.snp) > 1 =>
                /\ \A m \in Members(r.snp) :
                    /\ r.start <= _snp_intervals[m].start
                    /\ r.end >= _snp_intervals[m].end
                /\ \E m \in Members(r.snp) :
                    r.start = _snp_intervals[m].start
                /\ \E m \in Members(r.snp) : r.end = _snp_intervals[m].end

(***************************************************************************)
(* read_names, data.cpp:311-350, on the file of --snps, --null-snps or     *)
(* --condition.  A row is the vector of the tab-delimited cells of one     *)
(* line (common.h:133-152).                                                *)
(***************************************************************************)
MaxNameRows == 3
MaxNameCols == 2

\* data.cpp:330-331.
HeaderTokens == {"SNP", "snp", "name", "marker"}

\* Cells whose first character is '#'.
CommentTokens == {"#rs3"}

NameTokens == {"rs1", "rs2", "marker"} \cup CommentTokens

NameRows == UNION {[1 .. n -> NameTokens] : n \in 1 .. MaxNameCols}

NameFiles == UNION {[1 .. n -> NameRows] : n \in 0 .. MaxNameRows}

InitReadNames ==
    /\ IdleCondition
    /\ IdlePermute
    /\ IdleOutput
    /\ IdleReport
    /\ IdleSched
    /\ IdleResolve
    /\ IdleMerge
    /\ IdleRank
    /\ IdleRankdata
    /\ IdleRandom
    /\ IdleScore
    /\ names_file \in NameFiles
    /\ row_number = 0
    /\ found_snp = FALSE
    /\ snp_col = 1
    /\ names_read = {}
    /\ pc = "read_names"

readNamesFrame == <<rank_x, rank_indices, n_random, random_names,
                    random_result, score_method, score_function, n1, n2,
                    notCall>>

\* data.cpp:328-336: the first column that holds a header token, counted
\* from 1; 0 when none does.
HeaderColumn(file_row) ==
    IF \E i \in 1 .. Len(file_row) : file_row[i] \in HeaderTokens
    THEN CHOOSE i \in 1 .. Len(file_row) :
            /\ file_row[i] \in HeaderTokens
            /\ \A j \in 1 .. (i - 1) : file_row[j] \notin HeaderTokens
    ELSE 0

\* row[snp_col] of data.cpp:338 and 341.  Row::operator[] is operator[] of
\* a vector (common.h:125-128): past the end of the row it has undefined
\* behaviour and gives any string, or the process dies.
Cell(file_row, column) ==
    IF column <= Len(file_row) THEN {file_row[column]}
    ELSE NameTokens \cup {"", "crash"}

\* data.cpp:322-343, one turn of the while loop.
ReadRow ==
    /\ pc = "read_names"
    /\ row_number < Len(names_file)
    /\ row_number' = row_number + 1
    /\ LET file_row == names_file[row_number + 1] IN
        IF file_row[1] \in CommentTokens
        THEN UNCHANGED <<found_snp, snp_col, names_read, pc>>
        ELSE IF ~found_snp /\ HeaderColumn(file_row) > 0
        THEN /\ found_snp' = TRUE
             /\ snp_col' = HeaderColumn(file_row)
             /\ UNCHANGED <<names_read, pc>>
        ELSE /\ \E cell \in Cell(file_row, snp_col) :
                IF cell = "crash"
                THEN pc' = "crashed" /\ UNCHANGED names_read
                ELSE names_read' = names_read \cup {cell} /\ UNCHANGED pc
             /\ UNCHANGED <<found_snp, snp_col>>
    /\ UNCHANGED <<names_file, readNamesFrame>>

\* data.cpp:344-349, after the loop.
EndOfNames ==
    /\ pc = "read_names"
    /\ row_number = Len(names_file)
    /\ pc' = IF Cardinality(names_read) = 0 THEN "exit" ELSE "names_read"
    /\ UNCHANGED <<names_file, row_number, found_snp, snp_col, names_read,
                   readNamesFrame>>

NextReadNames ==
    \/ ReadRow
    \/ EndOfNames

SpecReadNames == InitReadNames /\ [][NextReadNames]_vars

\* The rows of the file that do not begin with '#', in file order.
NonComment(file) == SelectSeq(file, LAMBDA r : r[1] \notin CommentTokens)

(***************************************************************************)
(* C25: in read_names only the first non-comment row can be treated as a   *)
(* header (when it holds one of the tokens SNP, snp, name, marker); every  *)
(* other non-comment row adds the identifier in its first column to the    *)
(* name set, whatever tokens it holds.                                     *)
(***************************************************************************)
C25_OnlyFirstRowCanBeHeader ==
    pc \in {"names_read", "exit"} =>
        LET data == NonComment(names_file)
            first == IF data # <<>> /\ HeaderColumn(data[1]) > 0
                     THEN 2 ELSE 1
        IN names_read = {data[i][1] : i \in first .. Len(data)}

(***************************************************************************)
(* random_snps and random_genesets, data.cpp:386-431 and 917-931.  The     *)
(* null pool is never empty (read_names exits on a file without names);    *)
(* some of its SNPs have an interval, and some of those overlap a gene.    *)
(***************************************************************************)
NNullSnps == 3
MaxRandom == 2

RandomNullSnps == {<<k>> : k \in 1 .. NNullSnps}

\* data.cpp:399: make_vector(_null_snp_names), the set in its order.
null_snps == SetOrder(_null_snp_names)

InitRandom ==
    /\ IdleCondition
    /\ IdlePermute
    /\ IdleOutput
    /\ IdleReport
    /\ IdleSched
    /\ IdleMerge
    /\ IdleRank
    /\ IdleRankdata
    /\ IdleReadNames
    /\ IdleScore
    /\ slop \in SlopChoices
    /\ \E present \in SUBSET RandomNullSnps :
        _snp_intervals \in [present -> OverlapIntervals]
    /\ _null_snp_names = RandomNullSnps
    /\ _gene_interval_tree = read_bed_interval_tree(GeneBedFile, RowNames).tree
    /\ _geneset_bins = EmptyMap
    /\ bin_snps = EmptyMap
    /\ visited = {}
    /\ call = NoCall
    /\ n_random \in 1 .. MaxRandom
    /\ random_names = {}
    /\ random_result = <<>>
    /\ pc = "random_snps"

randomFrame == <<n_random, rank_x, rank_indices, names_file, row_number,
                 found_snp, snp_col, names_read, score_method,
                 score_function, n1, n2, notCall>>

\* data.cpp:408-429, one turn of the while loop in which the distribution
\* gives index r (counted from 1).
Draw(r) ==
    /\ pc = "random_snps"
    /\ Cardinality(random_names) < n_random
    /\ r \in 1 .. Len(null_snps)
    /\ random_names' =
        IF null_snps[r] \notin DOMAIN _snp_intervals THEN random_names
        ELSE IF Len(snp_geneset(null_snps[r], slop).indices) = 0
        THEN random_names
        ELSE random_names \cup {null_snps[r]}
    /\ UNCHANGED <<pc, random_result, randomFrame>>

\* data.cpp:408 with the loop condition false, then data.cpp:924-930.
ReturnGenesets ==
    /\ pc = "random_snps"
    /\ ~(Cardinality(random_names) < n_random)
    /\ LET snps == SetOrder(random_names)
           hit == SelectSeq(snps,
                    LAMBDA snp : Len(snp_geneset(snp, slop).indices) > 0)
       IN random_result' =
            [i \in 1 .. Len(hit) |-> snp_geneset(hit[i], slop).indices]
    /\ pc' = "returned"
    /\ UNCHANGED <<random_names, randomFrame>>

NextRandom ==
    \/ \E r \in 1 .. NNullSnps : Draw(r)
    \/ ReturnGenesets

SpecRandom == InitRandom /\ [][NextRandom]_vars

\* Fair sampling: an index whose draw would add a name is drawn in the end,
\* and the function returns once the loop condition is false.
SpecRandomFair ==
    /\ SpecRandom
    /\ \A r \in 1 .. NNullSnps : WF_vars(Draw(r))
    /\ WF_vars(ReturnGenesets)

(***************************************************************************)
(* C26: for every n >= 1 and every null pool, random_genesets returns in   *)
(* the end under fair sampling, and it returns exactly n genesets, each    *)
(* non-empty and each from a different SNP of the null pool that has an    *)
(* interval.                                                               *)
(***************************************************************************)
C26_RandomGenesetsReturnsN ==
    <>(/\ pc = "returned"
       /\ Len(random_result) = n_random
       /\ Cardinality(random_names) = n_random
       /\ random_names \subseteq (_null_snp_names \cap DOMAIN _snp_intervals)
       /\ \A i \in 1 .. Len(random_result) :
            /\ Len(random_result[i]) > 0
            /\ random_result[i] =
                snp_geneset(SetOrder(random_names)[i], slop).indices)

(***************************************************************************)
(* C27: whenever the mode is binary (column 0 holds only 0s and 1s), for   *)
(* every column c the cached sum[c] is the number of rows with a nonzero   *)
(* value in column c, whatever values the other columns hold.              *)
(***************************************************************************)
NonzeroRows(matrix, c) ==
    Cardinality({r \in MatrixRows(matrix) : ~EQ(matrix[r][c], Zero)})

C27_BinarySumCountsNonzeroRows ==
    (pc = "matrix_ready" /\ _binary_gene_matrix) =>
        \A c \in MatrixCols(_gene_matrix) :
            _binary_sums[c] = NonzeroRows(_gene_matrix, c)

(***************************************************************************)
(* calculate_pvalues selecting the scoring function, data.cpp:1111-1122,   *)
(* and the hypergeometric parameters of the binary scoring functions,      *)
(* data.cpp:935-999.  SpecScore continues the matrix pipeline of SpecRank: *)
(* the constructor hands its std::string score_method to calculate_pvalues *)
(* as it received it (data.cpp:24, 263).                                   *)
(***************************************************************************)
\* unsigned int arithmetic is modulo 2^32; the model wraps at UintModulus,
\* far above every row count and column sum it uses.
UintModulus == 1024

\* "single", "total", and a string that is neither.
ScoreMethods == {"single", "total", "both"}

BinaryFunctions == {"score_binary_single", "score_binary_total"}

\* data.cpp:1111-1122.
SelectFunction(method, binary) ==
    IF method = "single"
    THEN IF binary THEN "score_binary_single"
         ELSE "score_quantitative_single"
    ELSE IF method = "total"
    THEN IF binary THEN "score_binary_total"
         ELSE "score_quantitative_total"
    ELSE "score_quantitative_single"

scoreFrame == <<max_iterations, min_observations, user_score, batches,
                batch, nulls_tested, nulls_observed, row, null_draws,
                rankVars, resolveVars, mergeVars, permuteVars, reportVars,
                outputVars, conditionVars, rank_x, rank_indices, names_file,
                row_number, found_snp, snp_col, names_read, n_random,
                random_names, random_result>>

\* data.cpp:1099-1122: the call with the score_method of the command line.
SelectScoreFunction ==
    /\ pc = "matrix_ready"
    /\ \E method \in ScoreMethods :
        /\ score_method' = method
        /\ score_function' = SelectFunction(method, _binary_gene_matrix)
    /\ pc' = "score"
    /\ UNCHANGED <<col, n1, n2, scoreFrame>>

\* data.cpp:955-958: unsigned int n1 = n; unsigned int n2 = _nrows - n,
\* with ulong n = _binary_sums(col) and ulong _nrows.
HypergeometricN1(n) == n % UintModulus

HypergeometricN2(nrows, n) == USub(nrows, n) % UintModulus

\* data.cpp:935-999: a binary scoring function on column c (counted from 1)
\* and a geneset of one row.  score_binary_single sets n1 and n2 when the
\* geneset has a hit, score_binary_total for every geneset.
ScoreBinary ==
    /\ pc = "score"
    /\ score_function \in BinaryFunctions
    /\ \E c \in MatrixCols(_gene_matrix) :
        \E gene_id \in MatrixRows(_gene_matrix) :
            LET k == IF GT(_gene_matrix[gene_id][c], Zero) THEN 1 ELSE 0
                n == _binary_sums[c]
            IN /\ col' = c
               /\ IF k > 0 \/ score_function = "score_binary_total"
                  THEN /\ n1' = HypergeometricN1(n)
                       /\ n2' = HypergeometricN2(_nrows, n)
                       /\ pc' = "hypergeometric"
                  ELSE /\ UNCHANGED <<n1, n2>>
                       /\ pc' = "no_hit"
    /\ UNCHANGED <<score_method, score_function, scoreFrame>>

\* data.cpp:1003-1077: the quantitative scoring functions use neither n1
\* nor n2.
ScoreQuantitative ==
    /\ pc = "score"
    /\ score_function \notin BinaryFunctions
    /\ \E c \in MatrixCols(_gene_matrix) : col' = c
    /\ pc' = "scored"
    /\ UNCHANGED <<score_method, score_function, n1, n2, scoreFrame>>

NextScore ==
    \/ NextRank
    \/ SelectScoreFunction
    \/ ScoreBinary
    \/ ScoreQuantitative

SpecScore == InitRank /\ [][NextScore]_vars

(***************************************************************************)
(* C28: the scoring function calculate_pvalues uses is determined by mode  *)
(* and method: in binary mode a binary function is always selected         *)
(* (binary-single for single, binary-total for total) and in quantitative  *)
(* mode a quantitative one, for every value of the score-method argument   *)
(* the function can receive.                                               *)
(***************************************************************************)
C28_FunctionFollowsModeAndMethod ==
    pc \in {"score", "hypergeometric", "no_hit", "scored"} =>
        /\ _binary_gene_matrix <=> score_function \in BinaryFunctions
        /\ score_method = "single" =>
            score_function \in {"score_binary_single",
                                "score_quantitative_single"}
        /\ score_method = "total" =>
            score_function \in {"score_binary_total",
                                "score_quantitative_total"}

(***************************************************************************)
(* C30: in both binary scoring functions the hypergeometric parameters of  *)
(* column c are n1 = sum[c] and n2 = R_eff - sum[c], with n2 >= 0 and      *)
(* n1 + n2 = R_eff and no unsigned wrap-around, for every binary matrix    *)
(* and every gene-interval file; R_eff is the number of matrix rows minus  *)
(* the matrix genes missing from the interval file.                        *)
(***************************************************************************)
C30_HypergeometricParameters ==
    (pc = "hypergeometric"
        /\ \A c \in MatrixCols(_gene_matrix) :
            is_binary(Column(_gene_matrix, c))) =>
        LET R_eff == EffectiveRows(gene_intervals_file, _row_names) IN
        /\ n1 = _binary_sums[col]
        /\ n2 = R_eff - _binary_sums[col]
        /\ n2 >= 0
        /\ n1 + n2 = R_eff

(***************************************************************************)
(* The constructor from bin_genesets to the user's loci (data.cpp:115-178) *)
(* with a gene-interval file that lists a gene on two lines: every line    *)
(* whose name is a matrix row becomes an interval of the tree              *)
(* (data.cpp:487-501).                                                     *)
(***************************************************************************)
\* GeneBedFile and a second line for gene 1, one coordinate after the first.
RepeatBedFile ==
    GeneBedFile
    \o <<[chrom |-> 1, start |-> GeneFirst + 1, end |-> GeneFirst + 1,
          name |-> 1]>>

InitRepeat ==
    /\ IdleCondition
    /\ IdleCall
    /\ IdlePermute
    /\ IdleOutput
    /\ IdleSched
    /\ IdleRank
    /\ IdleReport
    /\ IdleMerge
    /\ slop \in SlopChoices
    /\ \E present \in SUBSET UserSnps :
        _snp_intervals \in [present -> OverlapIntervals]
    /\ _null_snp_names = UserSnps
    /\ _gene_interval_tree =
        read_bed_interval_tree(RepeatBedFile, RowNames).tree
    /\ _geneset_bins = EmptyMap
    /\ bin_snps = EmptyMap
    /\ visited = {}
    /\ call = NoCall
    /\ pc = IF DOMAIN _snp_intervals = {} THEN "binned" ELSE "bin_genesets"

\* data.cpp:120-137: the thread count and args.txt, which touch none of
\* the maps.
WriteArgs ==
    /\ pc = "binned"
    /\ pc' = "read_user_snps"
    /\ UNCHANGED <<schedVars, resolveVars, mergeVars, rankVars, permuteVars,
                   reportVars, outputVars, conditionVars, callVars>>

NextRepeat ==
    \/ BinGenesetsStep
    \/ WriteArgs
    \/ NextOverlap

SpecRepeat == InitRepeat /\ [][NextRepeat]_vars

NoRepeat(geneset) ==
    \A i \in 1 .. Len(geneset) : \A j \in 1 .. Len(geneset) :
        i # j => geneset[i] # geneset[j]

(***************************************************************************)
(* C29: every geneset returned by snp_geneset, stored in a bin, or         *)
(* attached to a merged user locus holds no row index twice, for every     *)
(* gene-interval file whose names are matrix rows, a file that lists a     *)
(* gene name on several lines included.                                    *)
(***************************************************************************)
C29_GenesetsHoldNoRowTwice ==
    /\ call # NoCall => NoRepeat(call.indices)
    /\ \A k \in DOMAIN _geneset_bins :
        \A i \in 1 .. Len(_geneset_bins[k]) : NoRepeat(_geneset_bins[k][i])
    /\ \A snp \in DOMAIN _user_genesets : NoRepeat(_user_genesets[snp])

=============================================================================
